---- MODULE Spec2Model ----
(***************************************************************************)
(* Upstream selection engine of the rotating proxy: the four selection     *)
(* strategies of src/proxy/rotation (random, round-robin,                  *)
(* least-connections, time-based) and the ConnectionTracker they share.    *)
(*                                                                         *)
(* Spec        one selector object, its strategy drawn at construction,    *)
(*             driven by refresh / select / acquire / release calls, each  *)
(*             call atomic (select holds the list's read lock, refresh its *)
(*             write lock).                                                *)
(* SpecTracker a ConnectionTracker on its own, with the history of         *)
(*             acquire and release calls per id.                           *)
(* SpecTB      concurrent select calls on one TimeBasedSelector, each      *)
(*             call split at its clock read and its lock operations.       *)
(* SpecDyn     the DynamicProxySelector of src/proxy/rotation/dynamic.rs:  *)
(*             the canonical pool and the active strategy object, driven   *)
(*             by refresh / set_strategy / select / acquire / release      *)
(*             calls that run one after the other.                         *)
(* SpecSwap    one select call on the DynamicProxySelector, split at the   *)
(*             clone of the active strategy, running against set_strategy  *)
(*             and refresh calls.                                          *)
(* SpecHandler the request handler of src/proxy/handler.rs behind the      *)
(*             service of src/proxy/server.rs: one client request at a     *)
(*             time through the CONNECT or the forwarding retry loop, with *)
(*             refreshes of the pool and the ends of open tunnels between  *)
(*             its steps.                                                  *)
(***************************************************************************)
EXTENDS Integers, Sequences, FiniteSets, TLC

\* ---------------------------------------------------------------- bounds
\* Longest proxy list; the proxy ids are 1..MaxLen.
MaxLen == 2
\* Largest number of connections counted at once, over all ids.
MaxConn == 2
\* Last second of the clock.
MaxTime == 3
\* Largest rotation interval, in seconds.
MaxInterval == 2
\* Largest value of the round-robin cursor (an AtomicUsize in the code).
MaxIndex == 4
\* Concurrent callers of select.
NumThreads == 2

\* ------------------------------------------------------------- constants
\* usize::MAX, the start value of min_connections.  TLC's integers are 32
\* bits wide, so the largest of them stands for it; every count of the model
\* is at most MaxConn.
UsizeMax == 2147483647

\* RotaError::NoProxiesAvailable, as a select result; proxy ids are >= 1.
NoProxiesAvailable == 0
\* Option::None of a proxy.
None == -1

Random == "random"
RoundRobin == "round_robin"
LeastConnections == "least_connections"
TimeBased == "time_based"
\* RotationStrategy, named as strategy_name() / as_str() name it.
Kinds == {Random, RoundRobin, LeastConnections, TimeBased}

ProxyIds == 1..MaxLen
Range(s) == {s[i] : i \in DOMAIN s}
\* The lists refresh can be given: proxies of the repository, whose ids are
\* distinct (the primary key), in any order.
ProxyLists ==
    {s \in UNION {[1..n -> ProxyIds] : n \in 0..MaxLen} :
        \A i, j \in DOMAIN s : i /= j => s[i] /= s[j]}
Intervals == 0..MaxInterval
Threads == 1..NumThreads
\* prev of a call that is no refresh
NoPrev == [len |-> 0, idx |-> 0, again |-> FALSE]

VARIABLES
    kind,                   \* the strategy of the selector
    proxies,                \* RwLock<Vec<Arc<Proxy>>>: the ids, in list order
    index,                  \* RoundRobinSelector.index
    current_index,          \* TimeBasedSelector.current_index
    last_rotation,          \* TimeBasedSelector.last_rotation (an Instant)
    rotation_interval_secs, \* TimeBasedSelector.rotation_interval_secs
    connections,            \* ConnectionTracker.connections
    now,                    \* the monotonic clock, Instant::now()
    \* history of the calls
    op,                     \* the last call
    arg,                    \* its proxy id (acquire, release), else 0
    ret,                    \* the result of the last select, if no other
                            \* call came after it
    prev,                   \* of the last call, if a refresh: the list
                            \* length and current_index before it, and
                            \* whether it repeats the refresh before it
    nselect,                \* round-robin selects since the last refresh
    acquired,               \* SpecTracker: acquire calls per id
    released,               \* SpecTracker: release calls per id
    underflow,              \* SpecTracker: ids released at count 0
    \* SpecTB: the concurrent callers of TimeBasedSelector::select
    pc,                     \* where each caller is in select
    t_now,                  \* its local `now` in maybe_rotate
    index_w,                \* holder of current_index.write(), or 0
    last_w,                 \* holder of last_rotation.write(), or 0
    \* SpecDyn, SpecSwap: the DynamicProxySelector
    dyn_proxies,            \* DynamicProxySelector.proxies
    heap,                   \* the strategy objects behind the Arcs
    inner,                  \* DynamicProxySelector.inner: the active object
    held,                   \* the Arc a running select cloned, or None
    since_swap,             \* acquires less releases since set_strategy
    swapped,                \* whether set_strategy ever ran
    \* SpecHandler: ProxyHandler and the request it handles
    max_retries,            \* ProxyHandlerConfig.max_retries
    h_pc,                   \* where the request is: idle, loop, attempt, done
    method,                 \* req.method()
    attempts,               \* the local `attempts` of the retry loop
    last_error,             \* the local `last_error`
    proxy,                  \* the id of the proxy of the running attempt
    records,                \* the RequestRecords of the request, in order
    connects,               \* upstream connections started for the request
    result,                 \* what handle returned: Ok or the Err
    response,               \* the status the client receives, 0 before
    tunnels,                \* open tunnels (relay tasks) per proxy id
    \* SpecServer, SpecLimiter: the service of handle_connection
    auth_enabled,           \* ProxyAuth.enabled
    rl_config,              \* RateLimiter.config: enabled and the quota
    limiters,               \* RateLimiter.limiters: a bucket per client
    solo,                   \* the limiters of the run in which only the
                            \* first client makes requests
    calls,                  \* check calls per client on its present bucket
    refilled,               \* whether that bucket ever got a token back
    client,                 \* client_ip of the request
    auth_header,            \* its Proxy-Authorization header, or None
    rl_ret,                 \* what rate_limiter.check returned
    invoked,                \* whether handler.handle was called for it
    challenge,              \* the Proxy-Authenticate header of the response
    \* SpecLimiter: a check call and an apply_settings call, step by step
    ck_pc,                  \* where the check call is
    ck_quota,               \* the quota it loaded in get_or_create_limiter
    ck_limiter,             \* the bucket behind the Arc it cloned
    ap_pc,                  \* where the apply_settings call is
    ap_new,                 \* the configuration it is about to store
    \* SpecTunnel: the relay tasks spawned by handle_connect
    relay,                  \* per task: where it is, its proxy, and which
                            \* halves of the copy have finished
    \* SpecRepo: one row of the proxies table
    row,                    \* its table and columns
    streak,                 \* failed requests since the last successful one
    upd,                    \* the status an update call is about to write
    \* SpecPool: set_strategy and refresh calls, step by step
    setter,                 \* the set_strategy call: where it is, its copy
                            \* of the pool and the strategy it has built
    refreshers,             \* per caller of refresh: where it is, its list
                            \* and the Arc it cloned
    \* SpecRR: concurrent callers of RoundRobinSelector::select
    rr,                     \* per caller: where it is and its fetched cursor
    rr_refresh,             \* where the refresh call is
    handed,                 \* the cursors fetched since the last refresh
    served,                 \* selects answered per place of the list since
                            \* the last refresh
    \* SpecServices: the proxies table and the background services
    tbl,                    \* the tables proxies and deleted_proxies
    settings,               \* rotation.remove_unhealthy and the batch limit
    hc,                     \* the health-check tick
    scan,                   \* the auto-archive scan
    \* SpecTransport, SpecForward
    transport,              \* the last ProxyTransport::connect call
    fwd                     \* the last forward_request call

vars == <<kind, proxies, index, current_index, last_rotation,
          rotation_interval_secs, connections, now,
          op, arg, ret, prev, nselect, acquired, released, underflow,
          pc, t_now, index_w, last_w,
          dyn_proxies, heap, inner, held, since_swap, swapped,
          max_retries, h_pc, method, attempts, last_error, proxy, records,
          connects, result, response, tunnels,
          auth_enabled, rl_config, limiters, solo, calls, refilled, client,
          auth_header, rl_ret, invoked, challenge,
          ck_pc, ck_quota, ck_limiter, ap_pc, ap_new,
          relay, row, streak, upd,
          setter, refreshers, rr, rr_refresh, handed, served,
          tbl, settings, hc, scan, transport, fwd>>

dynVars == <<dyn_proxies, heap, inner, held, since_swap, swapped>>
requestVars == <<h_pc, method, attempts, last_error, proxy, records,
                 connects, result, response>>
handlerVars == <<max_retries, requestVars, tunnels>>
limiterVars == <<rl_config, limiters, solo, calls, refilled>>
serviceVars == <<client, auth_header, rl_ret, invoked, challenge>>
serverVars == <<auth_enabled, limiterVars, serviceVars>>
checkVars == <<ck_pc, ck_quota, ck_limiter, ap_pc, ap_new>>
repoVars == <<row, streak, upd>>
poolVars == <<setter, refreshers>>
rrVars == <<rr, rr_refresh, handed, served>>
svcVars == <<tbl, settings, hc, scan>>
wireVars == <<transport, fwd>>
finalVars == <<poolVars, rrVars, svcVars, wireVars>>
lastVars == <<relay, repoVars, finalVars>>
laterVars == <<serverVars, checkVars, lastVars>>
\* what belongs to the specifications further down
restVars == <<dynVars, handlerVars, laterVars>>

selectorVars == <<kind, proxies, index, current_index, last_rotation,
                  rotation_interval_secs>>
trackerHistory == <<acquired, released, underflow>>
threadVars == <<pc, t_now, index_w, last_w>>
\* what the calls of Spec have no part in
notInSpec == <<acquired, released, underflow, pc, t_now, index_w, last_w,
               restVars>>

\* ------------------------------------------------------ ConnectionTracker
\* A DashMap<i64, usize>.  An absent key and a key holding 0 behave alike in
\* every operation (get gives 0, acquire gives 1, release leaves it), so the
\* map is a function on all ids and 0 stands for both.
TrackerNew == [i \in ProxyIds |-> 0]

TrackerGet(conn, id) == conn[id]

\* entry(id).and_modify(|c| *c += 1).or_insert(1)
TrackerAcquire(conn, id) ==
    [conn EXCEPT ![id] = IF @ = 0 THEN 1 ELSE @ + 1]

\* Faulty variant: release without the `if *c > 0` test.
TrackerRelease_Unchecked(conn, id) ==
    [conn EXCEPT ![id] = @ - 1]

\* Faulty variant: release drops the entry instead of counting down.
TrackerRelease_Remove(conn, id) ==
    [conn EXCEPT ![id] = 0]

\* entry(id).and_modify(|c| if *c > 0 { *c -= 1 })
TrackerRelease(conn, id) ==
    [conn EXCEPT ![id] = IF @ > 0 THEN @ - 1 ELSE @]

TrackerClear(conn) == [i \in ProxyIds |-> 0]

RECURSIVE SumTo(_, _)
SumTo(conn, n) == IF n = 0 THEN 0 ELSE conn[n] + SumTo(conn, n - 1)
Live(conn) == SumTo(conn, MaxLen)

\* ----------------------------------------------------------- Vec helpers
\* proxies.get(idx).cloned().ok_or(NoProxiesAvailable), idx counted from 0
VecGet(list, idx) ==
    IF idx < Len(list) THEN list[idx + 1] ELSE NoProxiesAvailable

\* selected.ok_or(NoProxiesAvailable)
OkOr(opt) == IF opt = None THEN NoProxiesAvailable ELSE opt

\* Instant::duration_since: saturates at zero when `earlier` is later
DurationSince(later, earlier) ==
    IF later >= earlier THEN later - earlier ELSE 0

\* ----------------------------------------------------------------- select
\* RandomSelector::select: any element of the list
RandomSelect ==
    /\ kind = Random
    /\ IF proxies = <<>>
         THEN ret' = NoProxiesAvailable
         ELSE \E i \in 0..(Len(proxies) - 1) : ret' = VecGet(proxies, i)
    /\ UNCHANGED <<index, current_index, last_rotation, nselect>>

\* Faulty variant: the cursor is used as it is, without the modulo.
RoundRobinPick_NoWrap(list, idx) == VecGet(list, idx)

\* fetch_add(1) % len, then proxies.get(idx)
RoundRobinPick(list, idx) == VecGet(list, idx % Len(list))

\* RoundRobinSelector::select
RoundRobinSelect ==
    /\ kind = RoundRobin
    /\ IF proxies = <<>>
         THEN /\ ret' = NoProxiesAvailable
              /\ UNCHANGED <<index, nselect>>
         ELSE /\ index < MaxIndex
              /\ index' = index + 1
              /\ ret' = RoundRobinPick(proxies, index)
              /\ nselect' = nselect + 1
    /\ UNCHANGED <<current_index, last_rotation>>

\* Faulty variant: `<=` for `<`, so that a later proxy with an equal count wins.
RECURSIVE LeastConnScan_LastWins(_, _, _, _, _)
LeastConnScan_LastWins(list, conn, i, min_connections, selected) ==
    IF i > Len(list)
      THEN selected
      ELSE LET c == TrackerGet(conn, list[i]) IN
           IF c <= min_connections
             THEN LeastConnScan_LastWins(list, conn, i + 1, c, list[i])
             ELSE LeastConnScan_LastWins(list, conn, i + 1, min_connections,
                                         selected)

\* The loop of LeastConnectionsSelector::select from element i on, with the
\* running min_connections and selected.
RECURSIVE LeastConnScan(_, _, _, _, _)
LeastConnScan(list, conn, i, min_connections, selected) ==
    IF i > Len(list)
      THEN selected
      ELSE LET c == TrackerGet(conn, list[i]) IN
           IF c < min_connections
             THEN LeastConnScan(list, conn, i + 1, c, list[i])
             ELSE LeastConnScan(list, conn, i + 1, min_connections, selected)

LeastConnPick(list, conn) ==
    IF list = <<>>
      THEN NoProxiesAvailable
      ELSE OkOr(LeastConnScan(list, conn, 1, UsizeMax, None))

\* LeastConnectionsSelector::select
LeastConnSelect ==
    /\ kind = LeastConnections
    /\ ret' = LeastConnPick(proxies, connections)
    /\ UNCHANGED <<index, current_index, last_rotation, nselect>>

\* Faulty variant: `>` for `>=` in the comparison with the interval.
MaybeRotate_Late(proxy_count, idx, last, interval, t) ==
    IF proxy_count = 0
      THEN <<idx, last>>
      ELSE IF DurationSince(t, last) > interval
             THEN <<(idx + 1) % proxy_count, t>>
             ELSE <<idx, last>>

\* TimeBasedSelector::maybe_rotate, as one step: <<index, last_rotation>>
\* after it, for the clock reading t.
MaybeRotate(proxy_count, idx, last, interval, t) ==
    IF proxy_count = 0
      THEN <<idx, last>>
      ELSE IF DurationSince(t, last) >= interval
             THEN <<(idx + 1) % proxy_count, t>>
             ELSE <<idx, last>>

\* TimeBasedSelector::select
TimeBasedSelect ==
    /\ kind = TimeBased
    /\ IF proxies = <<>>
         THEN /\ ret' = NoProxiesAvailable
              /\ UNCHANGED <<current_index, last_rotation>>
         ELSE LET r == MaybeRotate(Len(proxies), current_index, last_rotation,
                                   rotation_interval_secs, now) IN
              /\ current_index' = r[1]
              /\ last_rotation' = r[2]
              /\ ret' = VecGet(proxies, r[1])
    /\ UNCHANGED <<index, nselect>>

Select ==
    /\ \/ RandomSelect
       \/ RoundRobinSelect
       \/ LeastConnSelect
       \/ TimeBasedSelect
    /\ op' = "select"
    /\ arg' = 0
    /\ prev' = NoPrev
    /\ UNCHANGED <<kind, proxies, rotation_interval_secs, connections, now>>
    /\ UNCHANGED notInSpec

\* ---------------------------------------------------------------- refresh
\* Faulty variant: refresh leaves the cursor where it is.
RoundRobinRefreshIndex_Keep(idx) == idx

\* RoundRobinSelector::refresh: index.store(0)
RoundRobinRefreshIndex(idx) == 0

\* Faulty variant: refresh never adjusts current_index.
TimeBasedRefreshIndex_NoClamp(idx, new_len) == idx

\* Faulty variant: refresh moves on to the next proxy of the new list.
TimeBasedRefreshIndex_Advance(idx, new_len) ==
    IF new_len > 0 THEN (idx + 1) % new_len ELSE idx

\* TimeBasedSelector::refresh: current_index is reset when out of bounds of a
\* non-empty new list
TimeBasedRefreshIndex(idx, new_len) ==
    IF new_len > 0 /\ idx >= new_len THEN 0 ELSE idx

\* Faulty variant: refresh clears the tracker.
RefreshTracker_Clear(conn) == [i \in DOMAIN conn |-> 0]

\* LeastConnectionsSelector::refresh leaves the tracker as it is; so do the
\* other strategies.
RefreshTracker(conn) == conn

Refresh(list) ==
    /\ proxies' = list
    /\ index' = IF kind = RoundRobin THEN RoundRobinRefreshIndex(index)
                                    ELSE index
    /\ current_index' =
          IF kind = TimeBased
            THEN TimeBasedRefreshIndex(current_index, Len(list))
            ELSE current_index
    /\ connections' = RefreshTracker(connections)
    /\ op' = "refresh"
    /\ arg' = 0
    /\ prev' = [len |-> Len(proxies), idx |-> current_index,
                again |-> (op = "refresh" /\ list = proxies)]
    /\ nselect' = 0
    /\ ret' = None
    /\ UNCHANGED <<kind, last_rotation, rotation_interval_secs, now>>
    /\ UNCHANGED notInSpec

\* -------------------------------------------------------- acquire/release
\* <Strategy>::acquire: self.tracker.acquire(proxy_id), in every strategy
Acquire(id) ==
    /\ Live(connections) < MaxConn
    /\ connections' = TrackerAcquire(connections, id)
    /\ op' = "acquire"
    /\ arg' = id
    /\ prev' = NoPrev
    /\ UNCHANGED selectorVars
    /\ ret' = None
    /\ UNCHANGED <<now, nselect>>
    /\ UNCHANGED notInSpec

\* <Strategy>::release: self.tracker.release(proxy_id), in every strategy
Release(id) ==
    /\ connections' = TrackerRelease(connections, id)
    /\ op' = "release"
    /\ arg' = id
    /\ prev' = NoPrev
    /\ UNCHANGED selectorVars
    /\ ret' = None
    /\ UNCHANGED <<now, nselect>>
    /\ UNCHANGED notInSpec

\* The clock moves on.  Only the time-based strategy reads it.
Tick ==
    /\ kind = TimeBased
    /\ now < MaxTime
    /\ now' = now + 1
    /\ op' = "tick"
    /\ arg' = 0
    /\ prev' = NoPrev
    /\ UNCHANGED selectorVars
    /\ UNCHANGED <<connections, ret, nselect>>
    /\ UNCHANGED notInSpec

\* ------------------------------------------------------ strategy objects
\* A strategy object as a record, for the objects the DynamicProxySelector
\* holds behind Arc<dyn ProxySelector>.  The fields are those of the four
\* selector structs; a strategy uses the ones its struct has.
\* create_selector(strategy) / TimeBasedSelector::with_interval(interval),
\* made at clock reading t.
StrategyNew(k, interval, t) ==
    [kind |-> k,
     proxies |-> <<>>,
     index |-> 0,
     current_index |-> 0,
     last_rotation |-> IF k = TimeBased THEN t ELSE 0,
     rotation_interval_secs |-> IF k = TimeBased THEN interval ELSE 0,
     connections |-> TrackerNew]

\* <Strategy>::refresh(list)
StrategyRefresh(s, list) ==
    [s EXCEPT !.proxies = list,
              !.index = IF s.kind = RoundRobin
                          THEN RoundRobinRefreshIndex(@) ELSE @,
              !.current_index = IF s.kind = TimeBased
                                  THEN TimeBasedRefreshIndex(@, Len(list))
                                  ELSE @,
              !.connections = RefreshTracker(@)]

\* <Strategy>::select at clock reading t: the pairs <<result, object after>>
StrategySelect(s, t) ==
    IF s.proxies = <<>>
      THEN {<<NoProxiesAvailable, s>>}
      ELSE CASE s.kind = Random ->
                  {<<VecGet(s.proxies, i), s>> :
                      i \in 0..(Len(s.proxies) - 1)}
             [] s.kind = RoundRobin ->
                  {<<RoundRobinPick(s.proxies, s.index),
                     [s EXCEPT !.index = @ + 1]>>}
             [] s.kind = LeastConnections ->
                  {<<LeastConnPick(s.proxies, s.connections), s>>}
             [] s.kind = TimeBased ->
                  LET r == MaybeRotate(Len(s.proxies), s.current_index,
                                       s.last_rotation,
                                       s.rotation_interval_secs, t) IN
                  {<<VecGet(s.proxies, r[1]),
                     [s EXCEPT !.current_index = r[1],
                               !.last_rotation = r[2]]>>}

\* <Strategy>::strategy_name
StrategyName(s) == s.kind

\* <Strategy>::available_count: self.proxies.read().len()
AvailableCount(s) == Len(s.proxies)

\* <Strategy>::acquire / release
StrategyAcquire(s, id) ==
    [s EXCEPT !.connections = TrackerAcquire(@, id)]
StrategyRelease(s, id) ==
    [s EXCEPT !.connections = TrackerRelease(@, id)]

\* The places of the strategy objects.  Four are enough: the active one,
\* the one a running select still holds or the two that running refresh
\* calls still hold, and the one set_strategy builds.
ObjIds == 0..3
\* A place that holds no object: every Arc to it has been dropped.
Dropped == StrategyNew(Random, 0, 0)
\* The objects that still have an owner.
Collect(h, owners) == [i \in ObjIds |-> IF i \in owners THEN h[i] ELSE Dropped]
\* A place for a new object.
FreeId(owners) == CHOOSE i \in ObjIds \ owners :
                      \A j \in ObjIds \ owners : i <= j

\* ------------------------------------------- ProxyAuth and RateLimiter
\* Largest max_requests of the rate limit settings.
MaxBurst == 2
\* Number of client addresses.
NumClients == 2

Clients == 1..NumClients

\* A header value is the sequence of its characters.
NoHeader == [present |-> FALSE, value |-> <<>>]
Header(chars) == [present |-> TRUE, value |-> chars]

\* The alphabet of base64::engine::general_purpose::STANDARD; the place of
\* a character, less one, is its six bits.
B64Alphabet ==
    <<"A", "B", "C", "D", "E", "F", "G", "H", "I", "J", "K", "L", "M",
      "N", "O", "P", "Q", "R", "S", "T", "U", "V", "W", "X", "Y", "Z",
      "a", "b", "c", "d", "e", "f", "g", "h", "i", "j", "k", "l", "m",
      "n", "o", "p", "q", "r", "s", "t", "u", "v", "w", "x", "y", "z",
      "0", "1", "2", "3", "4", "5", "6", "7", "8", "9", "+", "/">>

Sextet(ch) ==
    IF \E i \in DOMAIN B64Alphabet : B64Alphabet[i] = ch
      THEN (CHOOSE i \in DOMAIN B64Alphabet : B64Alphabet[i] = ch) - 1
      ELSE None

DecodeError == [ok |-> FALSE, bytes |-> <<>>]

\* The bytes of one group of four characters; `last` says whether padding
\* may stand in it.  Bits left over before the padding must be zero.
DecodeQuad(q, last) ==
    LET a == Sextet(q[1])
        b == Sextet(q[2])
        c == Sextet(q[3])
        d == Sextet(q[4])
    IN  IF a = None \/ b = None THEN DecodeError
        ELSE IF q[3] = "=" /\ q[4] = "="
          THEN IF last /\ b % 16 = 0
                 THEN [ok |-> TRUE, bytes |-> <<a * 4 + b \div 16>>]
                 ELSE DecodeError
        ELSE IF c = None THEN DecodeError
        ELSE IF q[4] = "="
          THEN IF last /\ c % 4 = 0
                 THEN [ok |-> TRUE,
                       bytes |-> <<a * 4 + b \div 16,
                                   (b % 16) * 16 + c \div 4>>]
                 ELSE DecodeError
        ELSE IF d = None THEN DecodeError
        ELSE [ok |-> TRUE,
              bytes |-> <<a * 4 + b \div 16,
                          (b % 16) * 16 + c \div 4,
                          (c % 4) * 64 + d>>]

\* BASE64.decode(encoded), auth.rs lines 69-71
RECURSIVE Base64Decode(_)
Base64Decode(encoded) ==
    IF encoded = <<>> THEN [ok |-> TRUE, bytes |-> <<>>]
    ELSE IF Len(encoded) < 4 THEN DecodeError
    ELSE LET head == DecodeQuad(SubSeq(encoded, 1, 4), Len(encoded) = 4)
             tail == Base64Decode(SubSeq(encoded, 5, Len(encoded)))
         IN  IF head.ok /\ tail.ok
               THEN [ok |-> TRUE, bytes |-> head.bytes \o tail.bytes]
               ELSE DecodeError

\* String::from_utf8(decoded), line 73, for the bytes of the headers below:
\* ASCII is valid, and 0xFF stands in no valid encoding.
FromUtf8Ok(bytes) == \A i \in DOMAIN bytes : bytes[i] < 128

Colon == 58

\* credentials.split_once(':'), lines 75-77: the place of the first colon,
\* or 0
ColonAt(bytes) ==
    IF \E i \in DOMAIN bytes : bytes[i] = Colon
      THEN CHOOSE i \in DOMAIN bytes :
               /\ bytes[i] = Colon
               /\ \A j \in 1..(i - 1) : bytes[j] /= Colon
      ELSE 0

StartsWith(str, prefix) ==
    /\ Len(str) >= Len(prefix)
    /\ SubSeq(str, 1, Len(prefix)) = prefix

BasicPrefix == <<"B", "a", "s", "i", "c", " ">>

\* ProxyAuth.username and ProxyAuth.password: "u" and "p", in bytes
Username == <<117>>
Password == <<112>>

\* Faulty variant: the password is not compared.
Validate_UserOnly(enabled, header) ==
    \/ ~enabled
    \/ /\ header.present
       /\ StartsWith(header.value, BasicPrefix)
       /\ LET decoded == Base64Decode(SubSeq(header.value, 7,
                                             Len(header.value)))
              at == ColonAt(decoded.bytes)
          IN  /\ decoded.ok
              /\ FromUtf8Ok(decoded.bytes)
              /\ at /= 0
              /\ SubSeq(decoded.bytes, 1, at - 1) = Username

\* ProxyAuth::validate(req).is_ok()
Validate(enabled, header) ==
    \/ ~enabled
    \/ /\ header.present
       /\ StartsWith(header.value, BasicPrefix)
       /\ LET decoded == Base64Decode(SubSeq(header.value, 7,
                                             Len(header.value)))
              at == ColonAt(decoded.bytes)
          IN  /\ decoded.ok
              /\ FromUtf8Ok(decoded.bytes)
              /\ at /= 0
              /\ SubSeq(decoded.bytes, 1, at - 1) = Username
              /\ SubSeq(decoded.bytes, at + 1, Len(decoded.bytes))
                    = Password

\* ProxyAuth::challenge_response: the status and the header
PROXY_AUTHENTICATION_REQUIRED == 407
Challenge == "Basic realm=\"Proxy\""
NoChallenge == ""

\* handle_connection, line 143
TOO_MANY_REQUESTS == 429

\* A Quota is its burst capacity; the period of replenishment is left to
\* the Replenish step.  The bucket of a client is the capacity it was
\* built with and the cells it has left; a client with no entry in the
\* map has NoBucket.
NoBucket == [burst |-> 0, tokens |-> 0]

\* apply_settings, lines 88-99: the quota of the settings
SettingsQuota(max_requests) == IF max_requests < 1 THEN 1 ELSE max_requests

\* GovRateLimiter::direct(quota), line 143: a bucket with all its cells
GovDirect(quota) == [burst |-> quota, tokens |-> quota]

\* Faulty variant: a check takes no cell.
GovCheck_Free(bucket) == <<bucket.tokens > 0, bucket>>

\* limiter.check(), line 120: whether a cell was there, and the bucket after
GovCheck(bucket) ==
    IF bucket.tokens > 0
      THEN <<TRUE, [bucket EXCEPT !.tokens = @ - 1]>>
      ELSE <<FALSE, bucket>>

\* Faulty variant: one bucket for all clients.
BucketKey_Shared(c) == 1

\* get_or_create_limiter, line 142: the key of a client in the map
BucketKey(c) == c

\* get_or_create_limiter, lines 142-144: the entry of the client, made from
\* `quota` if there is none
GetOrCreate(map, c, quota) ==
    IF map[BucketKey(c)] = NoBucket
      THEN [map EXCEPT ![BucketKey(c)] = GovDirect(quota)]
      ELSE map

RlOk == 0

\* RateLimiter::check(client_ip) as one step: Ok, or the client_ip of
\* RateLimitExceeded, and the map after
LimiterCheck(config, map, c) ==
    IF ~config.enabled
      THEN [ret |-> RlOk, map |-> map]
      ELSE LET created == GetOrCreate(map, c, config.burst)
               checked == GovCheck(created[BucketKey(c)])
           IN  [ret |-> IF checked[1] THEN RlOk ELSE c,
                map |-> [created EXCEPT ![BucketKey(c)] = checked[2]]]

\* No request was served.
ServiceRest ==
    /\ client = 0
    /\ auth_header = NoHeader
    /\ rl_ret = None
    /\ invoked = FALSE
    /\ challenge = NoChallenge

\* No client has a bucket.
NoBuckets ==
    /\ limiters = [c \in Clients |-> NoBucket]
    /\ solo = [c \in Clients |-> NoBucket]
    /\ calls = [c \in Clients |-> 0]
    /\ refilled = [c \in Clients |-> FALSE]

\* ProxyAuth::disabled() and RateLimiter::disabled()
ServerRest ==
    /\ auth_enabled = FALSE
    /\ rl_config = [enabled |-> FALSE, burst |-> 1]
    /\ NoBuckets
    /\ ServiceRest

\* RateLimiter::disabled() and the apply_settings of main.rs, lines 93-94
LimiterInit ==
    /\ \E enabled \in BOOLEAN : \E max_requests \in 1..MaxBurst :
          rl_config = [enabled |-> enabled, burst |-> max_requests]
    /\ NoBuckets

CheckRest ==
    /\ ck_pc = "idle"
    /\ ck_quota = 0
    /\ ck_limiter = NoBucket
    /\ ap_pc = "idle"
    /\ ap_new = [enabled |-> FALSE, burst |-> 1]

\* The relay tasks: as many as there can be connections.
Tasks == 1..MaxConn
NoTask == [pc |-> "none", proxy |-> 0, c2s |-> FALSE, s2c |-> FALSE]

TunnelRest == relay = [t \in Tasks |-> NoTask]

\* A row that was never inserted.
NoRow ==
    [table |-> "none", status |-> "idle", requests |-> 0,
     successful_requests |-> 0, failed_requests |-> 0,
     invalid_since |-> None, auto_delete_after_failed_seconds |-> None,
     failure_reasons |-> "empty"]

RepoRest ==
    /\ row = NoRow
    /\ streak = 0
    /\ upd = "none"

\* No set_strategy call and no refresh call is running.
NoSetter == [pc |-> "idle", copy |-> <<>>, selector |-> Dropped]
NoRefresher == [pc |-> "idle", list |-> <<>>, sel |-> None]
\* The callers of refresh: the health checker and the archive service, or
\* two handlers of the API.
Refreshers == {1, 2}
PoolRest ==
    /\ setter = NoSetter
    /\ refreshers = [t \in Refreshers |-> NoRefresher]

\* No caller is inside the round-robin select or refresh.
NoCaller == [pc |-> "idle", cursor |-> 0, idx |-> 0]
RRRest ==
    /\ rr = [t \in Threads |-> NoCaller]
    /\ rr_refresh = "idle"
    /\ handed = <<>>
    /\ served = [i \in 1..MaxLen |-> 0]

\* The ids of the proxies of the tables.
SvcIds == {1, 2}

\* Two empty tables, and no service at work.
NoTables ==
    [proxies |-> [id \in SvcIds |-> NoRow],
     deleted_proxies |-> [id \in SvcIds |-> NoRow]]
NoTick ==
    [pc |-> "idle", todo |-> {}, list |-> <<>>, recovered |-> {}, bad |-> {}]
NoScan == [pc |-> "idle", batch |-> {}, list |-> <<>>]
SvcRest ==
    /\ tbl = NoTables
    /\ settings = [remove_unhealthy |-> TRUE, batch_limit |-> 1]
    /\ hc = NoTick
    /\ scan = NoScan

NoTransport ==
    [protocol |-> "none", address |-> <<>>, host |-> <<>>, port |-> 0,
     stage |-> "none", error |-> "none"]
\* Option<String>, a string being the sequence of its bytes
NoneString == [some |-> FALSE, bytes |-> <<>>]
SomeString(bytes) == [some |-> TRUE, bytes |-> bytes]
NoForward ==
    [headers |-> <<>>,
     upstream |-> [username |-> NoneString, password |-> NoneString],
     out |-> <<>>]
WireRest ==
    /\ transport = NoTransport
    /\ fwd = NoForward

FinalRest ==
    /\ PoolRest
    /\ RRRest
    /\ SvcRest
    /\ WireRest

LaterRest ==
    /\ ServerRest
    /\ CheckRest
    /\ TunnelRest
    /\ RepoRest
    /\ FinalRest

\* No request has arrived.
NoRequest ==
    /\ h_pc = "idle"
    /\ method = "none"
    /\ attempts = 0
    /\ last_error = "none"
    /\ proxy = 0
    /\ records = <<>>
    /\ connects = 0
    /\ result = "none"
    /\ response = 0
    /\ tunnels = TrackerNew

HandlerRest ==
    /\ max_retries = 0
    /\ NoRequest

\* The variables of the other specifications, at rest.
FirstRest ==
    /\ dyn_proxies = <<>>
    /\ heap = [i \in ObjIds |-> Dropped]
    /\ inner = 0
    /\ held = None
    /\ since_swap = TrackerNew
    /\ swapped = FALSE
    /\ HandlerRest

RestInit ==
    /\ FirstRest
    /\ LaterRest

\* ------------------------------------------------------------------- Spec
\* create_selector(strategy) / TimeBasedSelector::with_interval(interval)
SelectorInit ==
    /\ kind \in Kinds
    /\ proxies = <<>>
    /\ index = 0
    /\ current_index = 0
    /\ now = 0
    /\ last_rotation = now
    /\ rotation_interval_secs \in
          IF kind = TimeBased THEN Intervals ELSE {0}
    /\ connections = TrackerNew
    /\ op = "new"
    /\ arg = 0
    /\ ret = None
    /\ prev = NoPrev
    /\ nselect = 0
    /\ acquired = TrackerNew
    /\ released = TrackerNew
    /\ underflow = {}
    /\ pc = [t \in Threads |-> "idle"]
    /\ t_now = [t \in Threads |-> 0]
    /\ index_w = 0
    /\ last_w = 0

Init ==
    /\ SelectorInit
    /\ RestInit

Next ==
    \/ Select
    \/ \E list \in ProxyLists : Refresh(list)
    \/ \E id \in ProxyIds : Acquire(id)
    \/ \E id \in ProxyIds : Release(id)
    \/ Tick

Spec == Init /\ [][Next]_vars

\* ------------------------------------------------------------ SpecTracker
\* ConnectionTracker::acquire, with the history of the calls
TrackerAcquireCall(id) ==
    /\ acquired[id] < MaxConn
    /\ connections' = TrackerAcquire(connections, id)
    /\ acquired' = [acquired EXCEPT ![id] = @ + 1]
    /\ op' = "acquire"
    /\ arg' = id
    /\ ret' = None
    /\ UNCHANGED <<released, underflow>>
    /\ UNCHANGED <<selectorVars, now, prev, nselect, threadVars, restVars>>

\* ConnectionTracker::release; at most one release more than acquires
TrackerReleaseCall(id) ==
    /\ released[id] <= acquired[id]
    /\ connections' = TrackerRelease(connections, id)
    /\ released' = [released EXCEPT ![id] = @ + 1]
    /\ underflow' = IF TrackerGet(connections, id) = 0
                      THEN underflow \cup {id}
                      ELSE underflow
    /\ op' = "release"
    /\ arg' = id
    /\ ret' = None
    /\ UNCHANGED acquired
    /\ UNCHANGED <<selectorVars, now, prev, nselect, threadVars, restVars>>

\* ConnectionTracker::get
TrackerGetCall(id) ==
    /\ ret' = TrackerGet(connections, id)
    /\ op' = "get"
    /\ arg' = id
    /\ UNCHANGED <<connections, acquired, released, underflow>>
    /\ UNCHANGED <<selectorVars, now, prev, nselect, threadVars, restVars>>

\* ConnectionTracker::clear; the history starts again
TrackerClearCall ==
    /\ connections' = TrackerClear(connections)
    /\ acquired' = TrackerNew
    /\ released' = TrackerNew
    /\ underflow' = {}
    /\ op' = "clear"
    /\ arg' = 0
    /\ ret' = None
    /\ UNCHANGED <<selectorVars, now, prev, nselect, threadVars, restVars>>

TrackerNext ==
    \/ \E id \in ProxyIds : TrackerAcquireCall(id)
    \/ \E id \in ProxyIds : TrackerReleaseCall(id)
    \/ \E id \in ProxyIds : TrackerGetCall(id)
    \/ TrackerClearCall

\* The tracker of a new LeastConnectionsSelector.
TrackerInit ==
    /\ Init
    /\ kind = LeastConnections

SpecTracker == TrackerInit /\ [][TrackerNext]_vars

\* ----------------------------------------------------------------- SpecTB
\* Concurrent calls of TimeBasedSelector::select on one selector whose list
\* stays as it is.  Each caller holds proxies.read() for the whole call; no
\* refresh runs, so that lock is always granted.  A read guard of
\* last_rotation or current_index is taken and dropped within one step, which
\* therefore waits for the writer of that lock to be gone.
tbFrame == <<kind, proxies, index, rotation_interval_secs, connections,
             arg, prev, nselect, acquired, released, underflow, restVars>>

\* select, lines 86-90; maybe_rotate, lines 52-57: the empty list returns at
\* once, else the caller loads the interval and reads the clock.
SelectEnter(t) ==
    /\ pc[t] = "idle"
    /\ IF proxies = <<>>
         THEN /\ ret' = NoProxiesAvailable
              /\ op' = "failed"
              /\ UNCHANGED <<pc, t_now>>
         ELSE /\ t_now' = [t_now EXCEPT ![t] = now]
              /\ pc' = [pc EXCEPT ![t] = "check"]
              /\ ret' = None
              /\ op' = "enter"
    /\ UNCHANGED <<current_index, last_rotation, now, index_w, last_w>>
    /\ UNCHANGED tbFrame

\* now.duration_since(*last) >= interval
IntervalPassed(t_read, last, interval) ==
    DurationSince(t_read, last) >= interval

\* maybe_rotate, lines 59-64: should_rotate, under last_rotation.read()
CheckShouldRotate(t) ==
    /\ pc[t] = "check"
    /\ last_w = 0
    /\ pc' = [pc EXCEPT ![t] =
                 IF IntervalPassed(t_now[t], last_rotation,
                                   rotation_interval_secs)
                   THEN "lock_index"
                   ELSE "read_index"]
    /\ op' = "check"
    /\ UNCHANGED <<current_index, last_rotation, now, ret, t_now,
                   index_w, last_w>>
    /\ UNCHANGED tbFrame

\* maybe_rotate, line 65: self.current_index.write()
LockIndex(t) ==
    /\ pc[t] = "lock_index"
    /\ index_w = 0
    /\ index_w' = t
    /\ pc' = [pc EXCEPT ![t] = "lock_last"]
    /\ op' = "lock"
    /\ UNCHANGED <<current_index, last_rotation, now, ret, t_now, last_w>>
    /\ UNCHANGED tbFrame

\* maybe_rotate, line 66: self.last_rotation.write()
LockLast(t) ==
    /\ pc[t] = "lock_last"
    /\ last_w = 0
    /\ last_w' = t
    /\ pc' = [pc EXCEPT ![t] = "rotate"]
    /\ op' = "lock"
    /\ UNCHANGED <<current_index, last_rotation, now, ret, t_now, index_w>>
    /\ UNCHANGED tbFrame

\* Faulty variant: no second comparison once the write locks are held.
DoubleCheck_Skipped(t_read, last, interval) == TRUE

\* maybe_rotate, line 69: the comparison repeated under the write locks
DoubleCheck(t_read, last, interval) ==
    IntervalPassed(t_read, last, interval)

\* maybe_rotate, lines 68-73: rotate if the interval has still passed, then
\* drop both write guards
RotateLocked(t) ==
    /\ pc[t] = "rotate"
    /\ index_w = t
    /\ last_w = t
    /\ IF DoubleCheck(t_now[t], last_rotation, rotation_interval_secs)
         THEN /\ current_index' = (current_index + 1) % Len(proxies)
              /\ last_rotation' = t_now[t]
              /\ op' = "rotated"
         ELSE /\ UNCHANGED <<current_index, last_rotation>>
              /\ op' = "skipped"
    /\ index_w' = 0
    /\ last_w' = 0
    /\ pc' = [pc EXCEPT ![t] = "read_index"]
    /\ UNCHANGED <<now, ret, t_now>>
    /\ UNCHANGED tbFrame

\* select, lines 95-99: the index under current_index.read(), the lookup,
\* and the return
SelectReturn(t) ==
    /\ pc[t] = "read_index"
    /\ index_w = 0
    /\ ret' = VecGet(proxies, current_index)
    /\ pc' = [pc EXCEPT ![t] = "idle"]
    /\ t_now' = [t_now EXCEPT ![t] = 0]
    /\ op' = "return"
    /\ UNCHANGED <<current_index, last_rotation, now, index_w, last_w>>
    /\ UNCHANGED tbFrame

\* The clock moves on while the callers run.
ClockTick ==
    /\ now < MaxTime
    /\ now' = now + 1
    /\ op' = "tick"
    /\ UNCHANGED <<current_index, last_rotation, ret, threadVars>>
    /\ UNCHANGED tbFrame

TBNext ==
    \/ \E t \in Threads : SelectEnter(t)
    \/ \E t \in Threads : CheckShouldRotate(t)
    \/ \E t \in Threads : LockIndex(t)
    \/ \E t \in Threads : LockLast(t)
    \/ \E t \in Threads : RotateLocked(t)
    \/ \E t \in Threads : SelectReturn(t)
    \/ ClockTick

\* TimeBasedSelector::with_interval, then one refresh(list) before the
\* callers start.
TBInit ==
    /\ kind = TimeBased
    /\ proxies \in ProxyLists
    /\ index = 0
    /\ current_index = 0
    /\ now = 0
    /\ last_rotation = now
    /\ rotation_interval_secs \in Intervals
    /\ connections = TrackerNew
    /\ op = "refresh"
    /\ arg = 0
    /\ ret = None
    /\ prev = NoPrev
    /\ nselect = 0
    /\ acquired = TrackerNew
    /\ released = TrackerNew
    /\ underflow = {}
    /\ pc = [t \in Threads |-> "idle"]
    /\ t_now = [t \in Threads |-> 0]
    /\ index_w = 0
    /\ last_w = 0
    /\ RestInit

SpecTB == TBInit /\ [][TBNext]_vars

\* ---------------------------------------------------------------- SpecDyn
\* RotationStrategy, in the order of the enum, for the history of the calls
KindIndex(k) ==
    CASE k = Random -> 1
      [] k = RoundRobin -> 2
      [] k = LeastConnections -> 3
      [] k = TimeBased -> 4

\* The owners of strategy objects: DynamicProxySelector.inner and the clone
\* a running select holds.
Owners(active, mine) == {active} \cup (IF mine = None THEN {} ELSE {mine})

\* Faulty variant: the new strategy is installed without the pool.
CarryOver_Nothing(pool) == <<>>

\* set_strategy, line 38: self.proxies.read().clone()
CarryOver(pool) == pool

\* Faulty variant: select reads the list through the active strategy.
HeldStrategy_ActiveList(h, mine, active) ==
    [h[mine] EXCEPT !.proxies = h[active].proxies]

\* select, line 50: the call goes to the Arc cloned in line 49
HeldStrategy(h, mine, active) == h[mine]

\* The cursor of a round-robin object is kept within the model's range.
CursorInRange(s) ==
    (s.kind = RoundRobin /\ s.proxies /= <<>>) => s.index < MaxIndex

\* The intervals set_strategy is called with; only TimeBasedSelector takes
\* the interval.
SwapIntervals(k) == IF k = TimeBased THEN Intervals ELSE {0}

\* the variables of Spec, SpecTracker and SpecTB
firstVars == <<selectorVars, connections, prev, nselect,
               acquired, released, underflow, threadVars>>
dynFrame == <<firstVars, handlerVars, laterVars>>

\* DynamicProxySelector::select, lines 49-50, with no other call in between
DynSelect ==
    /\ held = None
    /\ CursorInRange(heap[inner])
    /\ \E r \in StrategySelect(HeldStrategy(heap, inner, inner), now) :
          /\ ret' = r[1]
          /\ heap' = [heap EXCEPT ![inner] = r[2]]
    /\ op' = "select"
    /\ arg' = 0
    /\ UNCHANGED <<dyn_proxies, inner, held, since_swap, swapped, now>>
    /\ UNCHANGED dynFrame

\* DynamicProxySelector::refresh, lines 54-56
DynRefresh(list) ==
    /\ dyn_proxies' = list
    /\ heap' = [heap EXCEPT ![inner] = StrategyRefresh(@, list)]
    /\ op' = "refresh"
    /\ arg' = 0
    /\ ret' = None
    /\ UNCHANGED <<inner, held, since_swap, swapped, now>>
    /\ UNCHANGED dynFrame

\* DynamicProxySelector::set_strategy, lines 29-41: the new object is built,
\* refreshed with the pool and put in place of the active one, whose Arc is
\* dropped
DynSetStrategy(k, interval) ==
    /\ LET new == FreeId(Owners(inner, held))
           selector == StrategyRefresh(StrategyNew(k, interval, now),
                                       CarryOver(dyn_proxies)) IN
       /\ heap' = Collect([heap EXCEPT ![new] = selector],
                          Owners(new, held))
       /\ inner' = new
    /\ since_swap' = TrackerNew
    /\ swapped' = TRUE
    /\ op' = "set_strategy"
    /\ arg' = KindIndex(k)
    /\ ret' = None
    /\ UNCHANGED <<dyn_proxies, held, now>>
    /\ UNCHANGED dynFrame

\* DynamicProxySelector::acquire: self.inner.read().acquire(proxy_id)
DynAcquire(id) ==
    /\ Live(heap[inner].connections) < MaxConn
    /\ heap' = [heap EXCEPT ![inner] = StrategyAcquire(@, id)]
    /\ since_swap' = TrackerAcquire(since_swap, id)
    /\ op' = "acquire"
    /\ arg' = id
    /\ ret' = None
    /\ UNCHANGED <<dyn_proxies, inner, held, swapped, now>>
    /\ UNCHANGED dynFrame

\* DynamicProxySelector::release: self.inner.read().release(proxy_id)
DynRelease(id) ==
    /\ heap' = [heap EXCEPT ![inner] = StrategyRelease(@, id)]
    /\ since_swap' = TrackerRelease(since_swap, id)
    /\ op' = "release"
    /\ arg' = id
    /\ ret' = None
    /\ UNCHANGED <<dyn_proxies, inner, held, swapped, now>>
    /\ UNCHANGED dynFrame

DynNext ==
    \/ DynSelect
    \/ \E list \in ProxyLists : DynRefresh(list)
    \/ \E k \in Kinds : \E interval \in SwapIntervals(k) :
          DynSetStrategy(k, interval)
    \/ \E id \in ProxyIds : DynAcquire(id)
    \/ \E id \in ProxyIds : DynRelease(id)

\* DynamicProxySelector::new(initial), the initial strategy new as well.  The
\* variables of the single selector of Spec are not used.  The calls fall
\* within one reading of the clock: a time-based strategy rotates on every
\* select when its interval is 0 and on none otherwise.
DynInit ==
    /\ SelectorInit
    /\ kind = Random
    /\ dyn_proxies = <<>>
    /\ \E k \in Kinds : \E interval \in SwapIntervals(k) :
          heap = [i \in ObjIds |->
                     IF i = 0 THEN StrategyNew(k, interval, 0) ELSE Dropped]
    /\ inner = 0
    /\ held = None
    /\ since_swap = TrackerNew
    /\ swapped = FALSE
    /\ HandlerRest
    /\ LaterRest

SpecDyn == DynInit /\ [][DynNext]_vars

\* --------------------------------------------------------------- SpecSwap
\* One select call on the DynamicProxySelector in two steps, with the
\* refresh and set_strategy calls of other tasks between them.  The read
\* guard of inner is dropped at the end of line 49, so no lock is held
\* between the steps.  No connection is counted here.
\* select, line 49: let selector = self.inner.read().clone()
SwapSelectClone ==
    /\ held = None
    /\ held' = inner
    /\ op' = "clone"
    /\ arg' = 0
    /\ ret' = None
    /\ UNCHANGED <<dyn_proxies, heap, inner, since_swap, swapped, now>>
    /\ UNCHANGED dynFrame

\* select, line 50: selector.select().await, after which the clone is
\* dropped.  arg tells whether the strategy had been replaced meanwhile.
SwapSelectRun ==
    /\ held /= None
    /\ CursorInRange(heap[held])
    /\ \E r \in StrategySelect(HeldStrategy(heap, held, inner), now) :
          /\ ret' = r[1]
          /\ heap' = Collect([heap EXCEPT ![held] = r[2]], {inner})
    /\ held' = None
    /\ op' = "run"
    /\ arg' = IF held = inner THEN 0 ELSE 1
    /\ UNCHANGED <<dyn_proxies, inner, since_swap, swapped, now>>
    /\ UNCHANGED dynFrame

SwapNext ==
    \/ SwapSelectClone
    \/ SwapSelectRun
    \/ \E list \in ProxyLists : DynRefresh(list)
    \/ \E k \in Kinds : \E interval \in SwapIntervals(k) :
          DynSetStrategy(k, interval)

SpecSwap == DynInit /\ [][SwapNext]_vars

\* ------------------------------------------------------------ SpecHandler
\* StatusCode, as far as the proxy and RotaError::status_code use it
OK == 200
BAD_REQUEST == 400
INTERNAL_SERVER_ERROR == 500
BAD_GATEWAY == 502
SERVICE_UNAVAILABLE == 503
GATEWAY_TIMEOUT == 504

\* u16::MAX, the largest port parse::<u16>() accepts
U16Max == 65535
\* the port of a CONNECT authority that names none
DefaultConnectPort == 443
\* a port text that is no number, as a result of ParseU16
InvalidPort == -1

\* RotaError::status_code, for the errors of the proxy path
StatusCode(e) ==
    CASE e = "InvalidRequest" -> BAD_REQUEST
      [] e = "Timeout" -> GATEWAY_TIMEOUT
      [] e = "ProxyConnectionFailed" -> BAD_GATEWAY
      [] e = "NoProxiesAvailable" -> SERVICE_UNAVAILABLE

\* A port text is a sequence of characters: 0..9 stand for the digits, any
\* other number for a character that is no digit.
RECURSIVE DigitsValue(_, _)
DigitsValue(text, acc) ==
    IF text = <<>>
      THEN acc
      ELSE IF Head(text) \notin 0..9 \/ acc > U16Max
             THEN InvalidPort
             ELSE DigitsValue(Tail(text), 10 * acc + Head(text))

\* port_str.parse::<u16>(): the empty text, a text with a character that is
\* no digit and a value above u16::MAX are errors
ParseU16(text) ==
    IF text = <<>>
      THEN InvalidPort
      ELSE LET v == DigitsValue(text, 0) IN
           IF v > U16Max THEN InvalidPort ELSE v

\* The port texts of the requests: none, 443, 65535, 65536, and "x".
PortTexts == {<<>>, <<4, 4, 3>>, <<6, 5, 5, 3, 5>>, <<6, 5, 5, 3, 6>>, <<10>>}

\* The client requests: the method, whether the URI has a host, whether the
\* authority has a colon and the text after the last one, and whether the
\* body can be read to its end.
\* handle_connect reads the authority only, handle_http the host and the
\* body.
Requests ==
    [method : {"CONNECT"}, has_host : {TRUE}, has_colon : BOOLEAN,
     port_str : PortTexts, body_ok : {TRUE}]
    \cup [method : {"GET"}, has_host : BOOLEAN, has_colon : {FALSE},
          port_str : {<<>>}, body_ok : BOOLEAN]

\* ProxyTransport::parse_authority: the port, or InvalidPort for
\* Err(InvalidRequest)
ParseAuthority(req) ==
    IF req.has_colon THEN ParseU16(req.port_str) ELSE DefaultConnectPort

\* handle_connect, line 108, and handle_http, lines 280-288: the error the
\* handler returns before its retry loop, or "none"
ParseError(req) ==
    IF req.method = "CONNECT"
      THEN IF ParseAuthority(req) = InvalidPort
             THEN "InvalidRequest" ELSE "none"
      ELSE IF ~req.has_host \/ ~req.body_ok
             THEN "InvalidRequest" ELSE "none"

\* handle_connection, lines 157-163: the status for an Err of the handler
HandlerErrorStatus(e) == INTERNAL_SERVER_ERROR

\* Faulty variant: one attempt too many.
MaxAttempts_OneMore(retries) == retries + 2

\* let max_attempts = self.config.max_retries + 1
MaxAttempts(retries) == retries + 1

\* Faulty variant: a failed select is answered like a failed connection.
SelectFailureStatus_BadGateway(e) == BAD_GATEWAY

\* handle_connect, lines 130-134, and handle_http, lines 300-304
SelectFailureStatus(e) == SERVICE_UNAVAILABLE

\* What an attempt can end with: a connection or a complete response with
\* its status, an error, or the elapse of the timeout.
UpstreamStatuses == {OK, 404, BAD_GATEWAY}
ConnectOutcomes ==
    {[kind |-> "ok", status |-> OK],
     [kind |-> "failed", status |-> 0],
     [kind |-> "timeout", status |-> 0]}
HttpOutcomes ==
    {[kind |-> "ok", status |-> st] : st \in UpstreamStatuses}
    \cup {[kind |-> "failed", status |-> 0],
          [kind |-> "timeout", status |-> 0]}

\* The RotaError of an attempt that did not succeed.
AttemptError(outcome) ==
    IF outcome.kind = "timeout" THEN "Timeout" ELSE "ProxyConnectionFailed"

\* Faulty variant: the record of a failed attempt repeats the status of
\* success.
ConnectRecord_AlwaysOk(p, outcome) ==
    [proxy_id |-> p, success |-> outcome.kind = "ok", status_code |-> OK,
     error_message |-> IF outcome.kind = "ok" THEN "none"
                                              ELSE AttemptError(outcome)]

\* handle_connect, lines 155-225: the RequestRecord of an attempt
ConnectRecord(p, outcome) ==
    IF outcome.kind = "ok"
      THEN [proxy_id |-> p, success |-> TRUE, status_code |-> OK,
            error_message |-> "none"]
      ELSE [proxy_id |-> p, success |-> FALSE, status_code |-> BAD_GATEWAY,
            error_message |-> AttemptError(outcome)]

\* Faulty variant: a response counts as a success only below 400.
HttpRecord_SuccessBelow400(p, outcome) ==
    IF outcome.kind = "ok"
      THEN [proxy_id |-> p, success |-> outcome.status < BAD_REQUEST,
            status_code |-> outcome.status, error_message |-> "none"]
      ELSE [proxy_id |-> p, success |-> FALSE, status_code |-> BAD_GATEWAY,
            error_message |-> AttemptError(outcome)]

\* handle_http, lines 326-361: the RequestRecord of an attempt
HttpRecord(p, outcome) ==
    IF outcome.kind = "ok"
      THEN [proxy_id |-> p, success |-> TRUE,
            status_code |-> outcome.status, error_message |-> "none"]
      ELSE [proxy_id |-> p, success |-> FALSE, status_code |-> BAD_GATEWAY,
            error_message |-> AttemptError(outcome)]

\* Faulty variant: the final record is attributed to a proxy.
FinalRecord_Attributed(err) ==
    [proxy_id |-> 1, success |-> FALSE, status_code |-> BAD_GATEWAY,
     error_message |-> err]

\* handle_http, lines 376-386: the record of the overall failure
FinalRecord(err) ==
    [proxy_id |-> 0, success |-> FALSE, status_code |-> BAD_GATEWAY,
     error_message |-> err]

\* Faulty variant: a failed forwarding attempt leaves no record.
EmitFailure_Dropped(recs, rec) == recs

\* handle_http, lines 360-361: broadcast_request_record and
\* persist_request_record of a failed attempt
EmitFailure(recs, rec) == Append(recs, rec)

handlerCore == <<firstVars, dyn_proxies, inner, held, swapped, now,
                 max_retries>>
handlerFrame == <<handlerCore, laterVars>>

\* ProxyHandler::handle up to the retry loop (lines 84-123, 273-293): a
\* request the handler cannot parse or read ends with Err(InvalidRequest),
\* which handle_connection turns into its response.
HandleRequest(req) ==
    /\ h_pc \in {"idle", "done"}
    /\ method' = req.method
    /\ attempts' = 0
    /\ last_error' = "none"
    /\ proxy' = 0
    /\ records' = <<>>
    /\ connects' = 0
    /\ IF ParseError(req) /= "none"
         THEN /\ result' = ParseError(req)
              /\ response' = HandlerErrorStatus(ParseError(req))
              /\ h_pc' = "done"
         ELSE /\ result' = "none"
              /\ response' = 0
              /\ h_pc' = "loop"
    /\ op' = "handle"
    /\ arg' = 0
    /\ ret' = None
    /\ UNCHANGED <<heap, since_swap, tunnels>>
    /\ UNCHANGED handlerCore

\* A request that arrives at the handler, the service before it left out.
Handle(req) ==
    /\ HandleRequest(req)
    /\ UNCHANGED laterVars

\* The head of the retry loop (lines 125-135, 295-308): one more attempt,
\* and self.selector.select().  NoProxiesAvailable ends the request; in
\* forwarding mode a TunnelGuard acquires the selected proxy.
LoopSelect ==
    /\ h_pc = "loop"
    /\ attempts < MaxAttempts(max_retries)
    /\ attempts' = attempts + 1
    /\ CursorInRange(heap[inner])
    /\ \E r \in StrategySelect(heap[inner], now) :
          /\ ret' = r[1]
          /\ IF r[1] = NoProxiesAvailable
               THEN /\ result' = "Ok"
                    /\ response' = SelectFailureStatus("NoProxiesAvailable")
                    /\ h_pc' = "done"
                    /\ heap' = [heap EXCEPT ![inner] = r[2]]
                    /\ UNCHANGED <<proxy, since_swap>>
               ELSE /\ proxy' = r[1]
                    /\ h_pc' = "attempt"
                    /\ IF method = "GET"
                         THEN /\ Live(r[2].connections) < MaxConn
                              /\ heap' = [heap EXCEPT ![inner] =
                                             StrategyAcquire(r[2], r[1])]
                              /\ since_swap' =
                                    TrackerAcquire(since_swap, r[1])
                         ELSE /\ heap' = [heap EXCEPT ![inner] = r[2]]
                              /\ UNCHANGED since_swap
                    /\ UNCHANGED <<result, response>>
    /\ op' = "select"
    /\ arg' = 0
    /\ UNCHANGED <<method, last_error, records, connects, tunnels>>
    /\ UNCHANGED handlerFrame

\* handle_connect, lines 143-262: ProxyTransport::connect under
\* connect_timeout, the record of the attempt, and on success the
\* TunnelGuard for the relay task and 200.
ConnectAttempt(outcome) ==
    /\ h_pc = "attempt"
    /\ method = "CONNECT"
    /\ connects' = connects + 1
    /\ records' = Append(records, ConnectRecord(proxy, outcome))
    /\ IF outcome.kind = "ok"
         THEN /\ Live(heap[inner].connections) < MaxConn
              /\ heap' = [heap EXCEPT ![inner] = StrategyAcquire(@, proxy)]
              /\ since_swap' = TrackerAcquire(since_swap, proxy)
              /\ tunnels' = [tunnels EXCEPT ![proxy] = @ + 1]
              /\ result' = "Ok"
              /\ response' = OK
              /\ h_pc' = "done"
              /\ UNCHANGED last_error
         ELSE /\ last_error' = AttemptError(outcome)
              /\ h_pc' = "loop"
              /\ UNCHANGED <<heap, since_swap, tunnels, result, response>>
    /\ op' = "outcome"
    /\ arg' = 0
    /\ ret' = None
    /\ UNCHANGED <<method, attempts, proxy>>
    /\ UNCHANGED handlerCore

\* The attempt, the relay task taken as a whole: see TunnelEnd.
ConnectOutcome(outcome) ==
    /\ ConnectAttempt(outcome)
    /\ UNCHANGED laterVars

\* handle_connect, lines 229-241: the loop is left without a connection
ConnectExhausted ==
    /\ h_pc = "loop"
    /\ method = "CONNECT"
    /\ ~(attempts < MaxAttempts(max_retries))
    /\ result' = "Ok"
    /\ response' = BAD_GATEWAY
    /\ h_pc' = "done"
    /\ op' = "exhausted"
    /\ arg' = 0
    /\ ret' = None
    /\ UNCHANGED <<method, attempts, last_error, proxy, records, connects,
                   heap, since_swap, tunnels>>
    /\ UNCHANGED handlerFrame

\* Faulty variant: the guard of an attempt that failed is never dropped.
AttemptEnd_LeakOnError(s, id, outcome) ==
    IF outcome.kind = "ok" THEN StrategyRelease(s, id) ELSE s

\* handle_http, lines 308-369: the _guard of the attempt goes out of scope
\* at the return of line 345 and at the end of the loop body, whatever
\* forward_request returned
AttemptEnd(s, id, outcome) == StrategyRelease(s, id)

\* handle_http, lines 315-369: forward_request, the record of the attempt,
\* the response on success; the TunnelGuard of the attempt is dropped.
HttpOutcome(outcome) ==
    /\ h_pc = "attempt"
    /\ method = "GET"
    /\ connects' = connects + 1
    /\ heap' = [heap EXCEPT ![inner] = AttemptEnd(@, proxy, outcome)]
    /\ since_swap' = TrackerRelease(since_swap, proxy)
    /\ IF outcome.kind = "ok"
         THEN /\ records' = Append(records, HttpRecord(proxy, outcome))
              /\ result' = "Ok"
              /\ response' = outcome.status
              /\ h_pc' = "done"
              /\ UNCHANGED last_error
         ELSE /\ records' = EmitFailure(records, HttpRecord(proxy, outcome))
              /\ last_error' = AttemptError(outcome)
              /\ h_pc' = "loop"
              /\ UNCHANGED <<result, response>>
    /\ op' = "outcome"
    /\ arg' = 0
    /\ ret' = None
    /\ UNCHANGED <<method, attempts, proxy, tunnels>>
    /\ UNCHANGED handlerFrame

\* handle_http, lines 372-396: the record of the overall failure and 502
HttpExhausted ==
    /\ h_pc = "loop"
    /\ method = "GET"
    /\ ~(attempts < MaxAttempts(max_retries))
    /\ records' = Append(records, FinalRecord(last_error))
    /\ result' = "Ok"
    /\ response' = BAD_GATEWAY
    /\ h_pc' = "done"
    /\ op' = "exhausted"
    /\ arg' = 0
    /\ ret' = None
    /\ UNCHANGED <<method, attempts, last_error, proxy, connects,
                   heap, since_swap, tunnels>>
    /\ UNCHANGED handlerFrame

\* Drop for TunnelGuard (tunnel.rs lines 135-139)
GuardDropped(id) ==
    /\ heap' = [heap EXCEPT ![inner] = StrategyRelease(@, id)]
    /\ since_swap' = TrackerRelease(since_swap, id)

\* The relay task of a tunnel ends (handle_connect, lines 246-257): its
\* TunnelGuard is dropped and releases the proxy.
TunnelEnd(id) ==
    /\ tunnels[id] > 0
    /\ tunnels' = [tunnels EXCEPT ![id] = @ - 1]
    /\ GuardDropped(id)
    /\ op' = "tunnel_end"
    /\ arg' = id
    /\ ret' = None
    /\ UNCHANGED requestVars
    /\ UNCHANGED handlerFrame

\* Largest max_retries of the configuration.
MaxRetries == 1

\* The pools the handler is refreshed with: one list for each set of
\* proxies, as the order of the list makes no difference to the random
\* select.
HandlerPools ==
    {list \in ProxyLists :
        \A i, j \in DOMAIN list : i < j => list[i] < list[j]}

HandlerNext ==
    \/ \E req \in Requests : Handle(req)
    \/ LoopSelect
    \/ \E outcome \in ConnectOutcomes : ConnectOutcome(outcome)
    \/ ConnectExhausted
    \/ \E outcome \in HttpOutcomes : HttpOutcome(outcome)
    \/ HttpExhausted
    \/ \E id \in ProxyIds : TunnelEnd(id)
    \/ \E list \in HandlerPools : DynRefresh(list)

\* The strategies the handler runs over: the one of the default settings,
\* whose select can return every proxy of the pool, as can the select of no
\* other strategy.
HandlerKinds == {Random}

\* ProxyHandler::new over a new DynamicProxySelector; no request yet
HandlerInit ==
    /\ SelectorInit
    /\ kind = Random
    /\ dyn_proxies = <<>>
    /\ \E k \in HandlerKinds :
          heap = [i \in ObjIds |->
                     IF i = 0 THEN StrategyNew(k, 0, 0) ELSE Dropped]
    /\ inner = 0
    /\ held = None
    /\ since_swap = TrackerNew
    /\ swapped = FALSE
    /\ max_retries \in 0..MaxRetries
    /\ NoRequest
    /\ LaterRest

SpecHandler == HandlerInit /\ [][HandlerNext]_vars

\* ------------------------------------------------------------- SpecServer
\* The service of ProxyServer::handle_connection in front of the handler:
\* the requests of one connection, one at a time and with any of the
\* headers below, with apply_settings calls and the replenishment of the
\* client's bucket between the steps.  The handler runs over a pool of one proxy and makes
\* one attempt.

\* Proxy-Authorization headers: none, the credentials "u:p", "u:x", "x:p",
\* "up", text outside the base64 alphabet, the byte 0xFF, and another
\* scheme.
GoodHeader == Header(BasicPrefix \o <<"d", "T", "p", "w">>)
BadHeaders ==
    {NoHeader,
     Header(BasicPrefix \o <<"d", "T", "p", "4">>),
     Header(BasicPrefix \o <<"e", "D", "p", "w">>),
     Header(BasicPrefix \o <<"d", "X", "A", "=">>),
     Header(BasicPrefix \o <<"!", "T", "p", "w">>),
     Header(BasicPrefix \o <<"/", "w", "=", "=">>),
     Header(<<"B", "e", "a", "r", "e", "r", " ", "d", "T", "p", "w">>)}
AuthHeaders == {GoodHeader} \cup BadHeaders

\* The requests served: a CONNECT and a GET the handler accepts, and a GET
\* it cannot parse.
ServedRequests ==
    {req \in Requests :
        \/ req.method = "CONNECT" /\ ~req.has_colon
        \/ req.method = "GET" /\ req.body_ok}

\* The service answers by itself (lines 141-146 and 151): the handler is
\* not called.
Refuse(req, status, header) ==
    /\ h_pc \in {"idle", "done"}
    /\ method' = req.method
    /\ attempts' = 0
    /\ last_error' = "none"
    /\ proxy' = 0
    /\ records' = <<>>
    /\ connects' = 0
    /\ result' = "none"
    /\ response' = status
    /\ h_pc' = "done"
    /\ invoked' = FALSE
    /\ challenge' = header
    /\ op' = "refuse"
    /\ arg' = 0
    /\ ret' = None
    /\ UNCHANGED <<heap, since_swap, tunnels>>
    /\ UNCHANGED handlerCore

\* handle_connection, line 140: whether rate_limiter.check let the request
\* pass
Admitted(r) == r = RlOk

\* The service function (lines 139-155) up to the retry loop of the
\* handler: the rate limit, then the authentication, then handler.handle.
Serve(c, header, req) ==
    /\ calls[c] <= MaxBurst
    /\ client' = c
    /\ auth_header' = header
    /\ LET checked == LimiterCheck(rl_config, limiters, c) IN
       /\ limiters' = checked.map
       /\ rl_ret' = checked.ret
       /\ calls' = IF rl_config.enabled
                     THEN [calls EXCEPT ![c] = @ + 1] ELSE calls
       /\ IF ~Admitted(checked.ret)
            THEN Refuse(req, TOO_MANY_REQUESTS, NoChallenge)
          ELSE IF ~Validate(auth_enabled, header)
            THEN Refuse(req, PROXY_AUTHENTICATION_REQUIRED, Challenge)
          ELSE /\ HandleRequest(req)
               /\ invoked' = TRUE
               /\ challenge' = NoChallenge
    /\ solo' = IF c = 1 THEN LimiterCheck(rl_config, solo, c).map ELSE solo
    /\ UNCHANGED <<auth_enabled, rl_config, refilled, checkVars,
                   lastVars>>

\* RateLimiter::apply_settings as one step (lines 84-110)
ApplySettings(enabled, max_requests) ==
    /\ rl_config' = [enabled |-> enabled,
                     burst |-> SettingsQuota(max_requests)]
    /\ limiters' = [c \in Clients |-> NoBucket]
    /\ solo' = [c \in Clients |-> NoBucket]
    /\ calls' = [c \in Clients |-> 0]
    /\ refilled' = [c \in Clients |-> FALSE]
    /\ op' = "apply_settings"
    /\ arg' = 0
    /\ ret' = None
    /\ UNCHANGED <<auth_enabled, serviceVars, checkVars, lastVars>>
    /\ UNCHANGED <<heap, since_swap, requestVars, tunnels, handlerCore>>

\* The period of the quota passes for the bucket of a client: it gets one
\* cell back.
Replenish(c) ==
    /\ limiters[c] /= NoBucket
    /\ limiters[c].tokens < limiters[c].burst
    /\ limiters' = [limiters EXCEPT ![c].tokens = @ + 1]
    /\ solo' = IF c = 1 /\ solo[c] /= NoBucket
                        /\ solo[c].tokens < solo[c].burst
                 THEN [solo EXCEPT ![c].tokens = @ + 1]
                 ELSE solo
    /\ refilled' = [refilled EXCEPT ![c] = TRUE]
    /\ op' = "replenish"
    /\ arg' = c
    /\ ret' = None
    /\ UNCHANGED <<auth_enabled, rl_config, calls, serviceVars, checkVars,
                   lastVars>>
    /\ UNCHANGED <<heap, since_swap, requestVars, tunnels, handlerCore>>

\* handle_connection, line 130: the client_ip of the connection
ServerClient == 1

ServerNext ==
    \/ \E header \in AuthHeaders : \E req \in ServedRequests :
          Serve(ServerClient, header, req)
    \/ LoopSelect
    \/ \E outcome \in ConnectOutcomes : ConnectOutcome(outcome)
    \/ ConnectExhausted
    \/ \E outcome \in HttpOutcomes : HttpOutcome(outcome)
    \/ HttpExhausted
    \/ \E id \in ProxyIds : TunnelEnd(id)
    \/ \E enabled \in BOOLEAN : \E max_requests \in 0..MaxBurst :
          ApplySettings(enabled, max_requests)
    \/ Replenish(ServerClient)

\* ProxyServer::new (server.rs lines 53-63) and the apply_settings of
\* main.rs line 94, over a handler whose pool was refreshed with one proxy
ServerInit ==
    /\ SelectorInit
    /\ kind = Random
    /\ dyn_proxies = <<1>>
    /\ heap = [i \in ObjIds |->
                  IF i = 0 THEN StrategyRefresh(StrategyNew(Random, 0, 0),
                                                <<1>>)
                  ELSE Dropped]
    /\ inner = 0
    /\ held = None
    /\ since_swap = TrackerNew
    /\ swapped = FALSE
    /\ max_retries = 0
    /\ NoRequest
    /\ auth_enabled \in BOOLEAN
    /\ LimiterInit
    /\ ServiceRest
    /\ CheckRest
    /\ TunnelRest
    /\ RepoRest
    /\ FinalRest

SpecServer == ServerInit /\ [][ServerNext]_vars

\* -------------------------------------------------------------- SpecQuota
\* The RateLimiter on its own: check calls of all clients, each as one
\* step, with apply_settings calls and the replenishment of buckets.  The
\* same calls are made on `solo`, but for the checks of the clients other
\* than the first.

\* RateLimiter::check(client_ip), lines 113-132
Check(c) ==
    /\ calls[c] <= MaxBurst
    /\ client' = c
    /\ LET checked == LimiterCheck(rl_config, limiters, c) IN
       /\ limiters' = checked.map
       /\ rl_ret' = checked.ret
    /\ calls' = IF rl_config.enabled
                  THEN [calls EXCEPT ![c] = @ + 1] ELSE calls
    /\ solo' = IF c = 1 THEN LimiterCheck(rl_config, solo, c).map ELSE solo
    /\ op' = "check"
    /\ arg' = c
    /\ ret' = None
    /\ UNCHANGED <<auth_enabled, rl_config, refilled, auth_header, invoked,
                   challenge, checkVars, lastVars>>
    /\ UNCHANGED <<heap, since_swap, requestVars, tunnels, handlerCore>>

QuotaNext ==
    \/ \E c \in Clients : Check(c)
    \/ \E enabled \in BOOLEAN : \E max_requests \in 0..MaxBurst :
          ApplySettings(enabled, max_requests)
    \/ \E c \in Clients : Replenish(c)

QuotaInit ==
    /\ SelectorInit
    /\ FirstRest
    /\ auth_enabled = FALSE
    /\ LimiterInit
    /\ ServiceRest
    /\ CheckRest
    /\ TunnelRest
    /\ RepoRest
    /\ FinalRest

SpecQuota == QuotaInit /\ [][QuotaNext]_vars

\* ------------------------------------------------------------ SpecLimiter
\* One check call and one apply_settings call at a time, each split at its
\* reads and writes of the shared state: config is an ArcSwap, read by
\* load() and written by store(), and limiters a DashMap, whose entry() and
\* clear() are atomic.  No lock spans two of them.
limiterFrame == <<auth_enabled, solo, calls, refilled, auth_header, invoked,
                  challenge, heap, since_swap, requestVars, tunnels,
                  handlerCore, lastVars>>

\* check, lines 113-116: config.load().enabled
CheckEnabled(c) ==
    /\ ck_pc = "idle"
    /\ client' = c
    /\ IF rl_config.enabled
         THEN /\ ck_pc' = "quota"
              /\ rl_ret' = None
         ELSE /\ ck_pc' = "idle"
              /\ rl_ret' = RlOk
    /\ op' = "check"
    /\ arg' = c
    /\ ret' = None
    /\ UNCHANGED <<rl_config, limiters, ck_quota, ck_limiter, ap_pc, ap_new>>
    /\ UNCHANGED limiterFrame

\* get_or_create_limiter, line 140: config.load().quota
CheckQuota ==
    /\ ck_pc = "quota"
    /\ ck_quota' = rl_config.burst
    /\ ck_pc' = "entry"
    /\ op' = "quota"
    /\ arg' = client
    /\ ret' = None
    /\ UNCHANGED <<rl_config, limiters, client, rl_ret, ck_limiter, ap_pc,
                   ap_new>>
    /\ UNCHANGED limiterFrame

\* get_or_create_limiter, lines 142-150: the entry of the client, made from
\* the quota loaded before, and a clone of its Arc.  ck_limiter is NoBucket
\* while the bucket behind the Arc is the one in the map.
CheckEntry ==
    /\ ck_pc = "entry"
    /\ limiters' = GetOrCreate(limiters, client, ck_quota)
    /\ ck_limiter' = NoBucket
    /\ ck_pc' = "limiter"
    /\ op' = "entry"
    /\ arg' = client
    /\ ret' = None
    /\ UNCHANGED <<rl_config, client, rl_ret, ck_quota, ap_pc, ap_new>>
    /\ UNCHANGED limiterFrame

\* check, lines 120-131: limiter.check() on the bucket behind the Arc, which
\* a clear() may have taken out of the map
CheckLimiter ==
    /\ ck_pc = "limiter"
    /\ LET checked == GovCheck(IF ck_limiter = NoBucket
                                 THEN limiters[BucketKey(client)]
                                 ELSE ck_limiter) IN
       /\ rl_ret' = IF checked[1] THEN RlOk ELSE client
       /\ limiters' = IF ck_limiter = NoBucket
                        THEN [limiters EXCEPT ![BucketKey(client)] =
                                                  checked[2]]
                        ELSE limiters
    /\ ck_limiter' = NoBucket
    /\ ck_quota' = 0
    /\ ck_pc' = "idle"
    /\ op' = "limiter"
    /\ arg' = client
    /\ ret' = None
    /\ UNCHANGED <<rl_config, client, ap_pc, ap_new>>
    /\ UNCHANGED limiterFrame

\* apply_settings, lines 85-101: the new configuration is built
ApplyBegin(enabled, max_requests) ==
    /\ ap_pc = "idle"
    /\ ap_new' = [enabled |-> enabled, burst |-> SettingsQuota(max_requests)]
    /\ ap_pc' = "clear"
    /\ op' = "apply_begin"
    /\ arg' = 0
    /\ ret' = None
    /\ UNCHANGED <<rl_config, limiters, client, rl_ret, ck_pc, ck_quota,
                   ck_limiter>>
    /\ UNCHANGED limiterFrame

\* apply_settings, line 104: self.limiters.clear().  A bucket a check holds
\* an Arc of lives on outside the map.
ApplyClear ==
    /\ ap_pc = "clear"
    /\ limiters' = [c \in Clients |-> NoBucket]
    /\ ck_limiter' = IF ck_pc = "limiter" /\ ck_limiter = NoBucket
                       THEN limiters[BucketKey(client)]
                       ELSE ck_limiter
    /\ ap_pc' = "store"
    /\ op' = "clear"
    /\ arg' = 0
    /\ ret' = None
    /\ UNCHANGED <<rl_config, client, rl_ret, ck_pc, ck_quota, ap_new>>
    /\ UNCHANGED limiterFrame

\* apply_settings, lines 105-110: self.config.store(..), and the return
ApplyStore ==
    /\ ap_pc = "store"
    /\ rl_config' = ap_new
    /\ ap_pc' = "idle"
    /\ op' = "apply_settings"
    /\ arg' = 0
    /\ ret' = None
    /\ UNCHANGED <<limiters, client, rl_ret, ck_pc, ck_quota, ck_limiter,
                   ap_new>>
    /\ UNCHANGED limiterFrame

LimiterNext ==
    \/ \E c \in Clients : CheckEnabled(c)
    \/ CheckQuota
    \/ CheckEntry
    \/ CheckLimiter
    \/ \E enabled \in BOOLEAN : \E max_requests \in 0..MaxBurst :
          ApplyBegin(enabled, max_requests)
    \/ ApplyClear
    \/ ApplyStore

SpecLimiter == QuotaInit /\ [][LimiterNext]_vars

\* ------------------------------------------------------------- SpecTunnel
\* CONNECT requests, one at a time, and the relay tasks they spawn, each
\* task step by step: it awaits the upgrade of the client connection, then
\* runs copy_bidirectional, whose two halves end one after the other, and
\* it can be cancelled, or panic, wherever it waits.
tunnelFrame == <<serverVars, checkVars, repoVars, finalVars>>

\* The first task slot not in use.
FreeTask ==
    CHOOSE t \in Tasks :
        /\ relay[t].pc = "none"
        /\ \A u \in Tasks : relay[u].pc = "none" => t <= u

\* The ways a relay task ends.
ExitPaths == {"copied", "upgrade_failed", "cancelled"}

\* Faulty variant: the guard is dropped at the end of the copy only.
GuardOwned_CopyOnly(path) == path = "copied"

\* handle_connect, line 247: the guard is moved into the task, so it is
\* dropped however the task ends
GuardOwned(path) == path \in ExitPaths

\* Faulty variant: the copy ends with its first half.
JoinDone_Either(c2s, s2c) == c2s \/ s2c

\* copy_bidirectional, lines 64-65: tokio::join! of the two halves
JoinDone(c2s, s2c) == c2s /\ s2c

\* handle_connect, lines 143-262: the attempt, and on success the relay
\* task, which owns the guard
TunnelConnect(outcome) ==
    /\ outcome.kind = "ok" => \E t \in Tasks : relay[t].pc = "none"
    /\ ConnectAttempt(outcome)
    /\ relay' = IF outcome.kind = "ok"
                  THEN [relay EXCEPT ![FreeTask] =
                          [pc |-> "upgrade", proxy |-> proxy,
                           c2s |-> FALSE, s2c |-> FALSE]]
                  ELSE relay
    /\ UNCHANGED tunnelFrame

\* The task of slot t ends by `path`; what it held is dropped.
RelayExit(t, path) ==
    /\ relay' = [relay EXCEPT ![t] = NoTask]
    /\ tunnels' = [tunnels EXCEPT ![relay[t].proxy] = @ - 1]
    /\ IF GuardOwned(path)
         THEN GuardDropped(relay[t].proxy)
         ELSE UNCHANGED <<heap, since_swap>>
    /\ op' = path
    /\ arg' = t
    /\ ret' = None
    /\ UNCHANGED requestVars
    /\ UNCHANGED handlerCore
    /\ UNCHANGED tunnelFrame

\* handle_connect, lines 248-250: on_upgrade.await gives the connection
UpgradeOk(t) ==
    /\ relay[t].pc = "upgrade"
    /\ relay' = [relay EXCEPT ![t].pc = "copy"]
    /\ op' = "upgraded"
    /\ arg' = t
    /\ ret' = None
    /\ UNCHANGED <<heap, since_swap, tunnels>>
    /\ UNCHANGED requestVars
    /\ UNCHANGED handlerCore
    /\ UNCHANGED tunnelFrame

\* handle_connect, lines 253-255: on_upgrade.await fails
UpgradeFailed(t) ==
    /\ relay[t].pc = "upgrade"
    /\ RelayExit(t, "upgrade_failed")

\* copy_bidirectional, lines 52-65: one half of the copy ends (its
\* tokio::io::copy returns and the write side is shut down); the join
\* returns when both have, with it the call (line 251) and the task
HalfDone(t, half) ==
    /\ relay[t].pc = "copy"
    /\ ~relay[t][half]
    /\ LET after == [relay[t] EXCEPT ![half] = TRUE] IN
       IF JoinDone(after.c2s, after.s2c)
         THEN RelayExit(t, "copied")
         ELSE /\ relay' = [relay EXCEPT ![t] = after]
              /\ op' = "half_done"
              /\ arg' = t
              /\ ret' = None
              /\ UNCHANGED <<heap, since_swap, tunnels>>
              /\ UNCHANGED requestVars
              /\ UNCHANGED handlerCore
              /\ UNCHANGED tunnelFrame

\* The task is aborted, or panics, at one of its awaits: its future is
\* dropped with all it owns.
Cancelled(t) ==
    /\ relay[t].pc \in {"upgrade", "copy"}
    /\ RelayExit(t, "cancelled")

\* The CONNECT requests.
ConnectRequests == {req \in Requests : req.method = "CONNECT"}

TunnelNext ==
    \/ \E req \in ConnectRequests : Handle(req)
    \/ LoopSelect
    \/ \E outcome \in ConnectOutcomes : TunnelConnect(outcome)
    \/ ConnectExhausted
    \/ \E t \in Tasks : UpgradeOk(t)
    \/ \E t \in Tasks : UpgradeFailed(t)
    \/ \E t \in Tasks : \E half \in {"c2s", "s2c"} : HalfDone(t, half)
    \/ \E t \in Tasks : Cancelled(t)

\* ProxyHandler::new with no retries, its pool refreshed with no proxy or
\* with all
TunnelInit ==
    /\ SelectorInit
    /\ kind = Random
    /\ \E list \in {<<>>, [i \in 1..MaxLen |-> i]} :
          /\ dyn_proxies = list
          /\ heap = [i \in ObjIds |->
                        IF i = 0
                          THEN StrategyRefresh(StrategyNew(Random, 0, 0),
                                               list)
                          ELSE Dropped]
    /\ inner = 0
    /\ held = None
    /\ since_swap = TrackerNew
    /\ swapped = FALSE
    /\ max_retries = 0
    /\ NoRequest
    /\ ServerRest
    /\ CheckRest
    /\ TunnelRest
    /\ RepoRest
    /\ FinalRest

SpecTunnel == TunnelInit /\ [][TunnelNext]_vars

\* --------------------------------------------------------------- SpecRepo
\* One row of the proxies table under the statements of ProxyRepository
\* and DeletedProxyRepository, each statement one step, with the clock of
\* the database (NOW()) in `now`.  An update call reads the row and writes
\* it in two statements; all others are one statement or one transaction.

\* Largest value of the requests column.
MaxRequests == 3

\* record_request, line 393
FailureThreshold == 3

\* The status column: the three values the program writes, and one more
\* that an update request can carry.
Statuses == {"idle", "active", "failed", "disabled"}

\* auto_delete_after_failed_seconds of a create request
AutoDeletes == {None, 0, 1}

repoFrame == <<firstVars, dynVars, handlerVars, serverVars, checkVars,
               relay, finalVars>>

\* COALESCE(invalid_since, NOW())
Coalesce(value, t) == IF value = None THEN t ELSE value

\* append_failure_reason(failure_reasons, ..), lines 404-413 and 447-456.
\* Of the failure_reasons column the model keeps whether the list is empty
\* ('[]'::jsonb, "empty") or has a reason ("reasons").
AppendFailureReason(reasons) == "reasons"

\* create, lines 180-202, with the defaults of the table
CreateRow(auto) ==
    [table |-> "proxies", status |-> "idle", requests |-> 0,
     successful_requests |-> 0, failed_requests |-> 0,
     invalid_since |-> None, auto_delete_after_failed_seconds |-> auto,
     failure_reasons |-> "empty"]

\* Faulty variant: the threshold has to be passed.
RequestStatus_Above(r, success) ==
    IF success THEN "active"
    ELSE IF r.failed_requests + 1 > FailureThreshold THEN "failed"
    ELSE r.status

\* record_request, lines 390-396
RequestStatus(r, success) ==
    IF success THEN "active"
    ELSE IF r.failed_requests + 1 >= FailureThreshold THEN "failed"
    ELSE r.status

\* Faulty variant: the status of the row is not looked at.
RequestInvalidSince_ThresholdOnly(r, success, t) ==
    IF success THEN None
    ELSE IF r.failed_requests + 1 >= FailureThreshold
      THEN Coalesce(r.invalid_since, t)
    ELSE None

\* record_request, lines 397-403
RequestInvalidSince(r, success, t) ==
    IF success THEN None
    ELSE IF r.status = "failed"
            \/ r.failed_requests + 1 >= FailureThreshold
      THEN Coalesce(r.invalid_since, t)
    ELSE None

\* record_request, lines 366-416: the row after the UPDATE; every
\* expression reads the columns as they were before it
RecordRequestRow(r, success, t) ==
    [r EXCEPT !.requests = @ + 1,
              !.successful_requests = IF success THEN @ + 1 ELSE @,
              !.failed_requests = IF success THEN 0 ELSE @ + 1,
              !.status = RequestStatus(r, success),
              !.invalid_since = RequestInvalidSince(r, success, t),
              !.failure_reasons = IF success THEN "empty"
                                  ELSE AppendFailureReason(@)]

\* Faulty variant: every failed probe stamps the row.
HealthInvalidSince_Now(r, success, t) == IF success THEN None ELSE t

\* record_health_check, lines 443-446
HealthInvalidSince(r, success, t) ==
    IF success THEN None ELSE Coalesce(r.invalid_since, t)

\* record_health_check, lines 435-458
HealthCheckRow(r, success, t) ==
    [r EXCEPT !.status = IF success THEN "active" ELSE "failed",
              !.invalid_since = HealthInvalidSince(r, success, t),
              !.failure_reasons = IF success THEN "empty"
                                  ELSE AppendFailureReason(@)]

\* update, lines 218-234
UpdateRow(r, status, t) ==
    [r EXCEPT !.status = status,
              !.invalid_since = IF status = "failed"
                                  THEN Coalesce(r.invalid_since, t)
                                  ELSE None,
              !.failure_reasons = IF status = "failed" THEN @
                                  ELSE "empty"]

\* toggle_proxy (api/handlers/proxy.rs), lines 151-156
ToggleStatus(status) == IF status = "idle" THEN "active" ELSE "idle"

\* archive_expired_failed, lines 317-321: the row is a candidate
Expired(r, t) ==
    /\ r.status = "failed"
    /\ r.auto_delete_after_failed_seconds /= None
    /\ r.auto_delete_after_failed_seconds > 0
    /\ r.invalid_since /= None
    /\ t - r.invalid_since >= r.auto_delete_after_failed_seconds

\* DeletedProxyRepository::restore, lines 115-128
RestoreRow(r) ==
    [r EXCEPT !.table = "proxies", !.status = "idle",
              !.invalid_since = None, !.failure_reasons = "empty"]

Create(auto) ==
    /\ row.table = "none"
    /\ row' = CreateRow(auto)
    /\ streak' = 0
    /\ op' = "create"
    /\ arg' = 0
    /\ ret' = None
    /\ UNCHANGED <<now, upd>>
    /\ UNCHANGED repoFrame

\* record_request(id, success, ..); arg is 1 for success.  A row that is
\* not in the table is not updated.
RecordRequest(success) ==
    /\ row.requests < MaxRequests
    /\ IF row.table = "proxies"
         THEN /\ row' = RecordRequestRow(row, success, now)
              /\ streak' = IF success THEN 0 ELSE streak + 1
         ELSE UNCHANGED <<row, streak>>
    /\ op' = "record_request"
    /\ arg' = IF success THEN 1 ELSE 0
    /\ ret' = None
    /\ UNCHANGED <<now, upd>>
    /\ UNCHANGED repoFrame

\* check_all_proxies (health.rs lines 115-119): record_health_check(id,
\* is_healthy, ..)
RecordHealthCheck(success) ==
    /\ IF row.table = "proxies"
         THEN row' = HealthCheckRow(row, success, now)
         ELSE UNCHANGED row
    /\ op' = "record_health_check"
    /\ arg' = IF success THEN 1 ELSE 0
    /\ ret' = None
    /\ UNCHANGED <<now, streak, upd>>
    /\ UNCHANGED repoFrame

\* update, lines 207-216: the row is read, and the status to write is the
\* one of the request, or the one read
UpdateBegin(status) ==
    /\ upd = "none"
    /\ row.table = "proxies"
    /\ upd' = IF status = "none" THEN row.status ELSE status
    /\ op' = "update_begin"
    /\ arg' = 0
    /\ ret' = None
    /\ UNCHANGED <<now, row, streak>>
    /\ UNCHANGED repoFrame

\* toggle_proxy up to the UPDATE of the update call it makes
Toggle ==
    /\ upd = "none"
    /\ row.table = "proxies"
    /\ upd' = ToggleStatus(row.status)
    /\ op' = "toggle"
    /\ arg' = 0
    /\ ret' = None
    /\ UNCHANGED <<now, row, streak>>
    /\ UNCHANGED repoFrame

\* update, lines 218-249: the UPDATE
UpdateWrite ==
    /\ upd /= "none"
    /\ row' = IF row.table = "proxies" THEN UpdateRow(row, upd, now)
              ELSE row
    /\ upd' = "none"
    /\ op' = "update"
    /\ arg' = 0
    /\ ret' = None
    /\ UNCHANGED <<now, streak>>
    /\ UNCHANGED repoFrame

\* archive_expired_failed, lines 309-356: the row moves to deleted_proxies
Archive ==
    /\ row.table = "proxies"
    /\ Expired(row, now)
    /\ row' = [row EXCEPT !.table = "deleted_proxies"]
    /\ op' = "archive"
    /\ arg' = 0
    /\ ret' = None
    /\ UNCHANGED <<now, streak, upd>>
    /\ UNCHANGED repoFrame

\* DeletedProxyRepository::restore
Restore ==
    /\ row.table = "deleted_proxies"
    /\ row' = RestoreRow(row)
    /\ op' = "restore"
    /\ arg' = 0
    /\ ret' = None
    /\ UNCHANGED <<now, streak, upd>>
    /\ UNCHANGED repoFrame

\* Time passes.
RepoTick ==
    /\ now < MaxTime
    /\ now' = now + 1
    /\ op' = "tick"
    /\ arg' = 0
    /\ ret' = None
    /\ UNCHANGED repoVars
    /\ UNCHANGED repoFrame

RepoNext ==
    \/ \E auto \in AutoDeletes : Create(auto)
    \/ \E success \in BOOLEAN : RecordRequest(success)
    \/ \E success \in BOOLEAN : RecordHealthCheck(success)
    \/ \E status \in Statuses \cup {"none"} : UpdateBegin(status)
    \/ Toggle
    \/ UpdateWrite
    \/ Archive
    \/ Restore
    \/ RepoTick

\* An empty table.
RepoInit ==
    /\ SelectorInit
    /\ kind = Random
    /\ FirstRest
    /\ ServerRest
    /\ CheckRest
    /\ TunnelRest
    /\ RepoRest
    /\ FinalRest

SpecRepo == RepoInit /\ [][RepoNext]_vars

\* -------------------------------------------------------------- SpecGuard
\* TunnelGuards on the DynamicProxySelector, created and dropped by the
\* tasks that hold them, with set_strategy and refresh calls in between.
\* `tunnels` counts the live guards per proxy id.

\* TunnelGuard::new(proxy_id, selector): selector.acquire(proxy_id)
GuardNew(id) ==
    /\ SumTo(tunnels, MaxLen) < MaxConn
    /\ tunnels' = [tunnels EXCEPT ![id] = @ + 1]
    /\ heap' = [heap EXCEPT ![inner] = StrategyAcquire(@, id)]
    /\ since_swap' = TrackerAcquire(since_swap, id)
    /\ op' = "guard_new"
    /\ arg' = id
    /\ ret' = None
    /\ UNCHANGED requestVars
    /\ UNCHANGED handlerFrame

GuardNext ==
    \/ \E id \in ProxyIds : GuardNew(id)
    \/ \E id \in ProxyIds : TunnelEnd(id)
    \/ \E k \in Kinds : \E interval \in SwapIntervals(k) :
          DynSetStrategy(k, interval)
    \/ \E list \in HandlerPools : DynRefresh(list)

SpecGuard == DynInit /\ [][GuardNext]_vars

\* --------------------------------------------------------------- SpecPool
\* One set_strategy call and concurrent refresh calls on the
\* DynamicProxySelector, each split at its lock operations: no lock is
\* held from one line of dynamic.rs to the next.
poolFrame == <<firstVars, handlerVars, serverVars, checkVars, relay,
               repoVars, rrVars, svcVars, wireVars, held, now>>

\* The owners of strategy objects: inner, and the clones of the refresh
\* calls that are about to run.
PoolOwners(active, callers) ==
    {active} \cup {callers[t].sel : t \in {u \in Refreshers :
                                              callers[u].pc = "run"}}

\* refresh, line 54: *self.proxies.write() = proxies.clone()
RefreshStore(t, list) ==
    /\ refreshers[t].pc = "idle"
    /\ dyn_proxies' = list
    /\ refreshers' = [refreshers EXCEPT ![t] =
                         [pc |-> "clone", list |-> list, sel |-> None]]
    /\ op' = "refresh_store"
    /\ arg' = t
    /\ ret' = None
    /\ UNCHANGED <<heap, inner, since_swap, swapped, setter>>
    /\ UNCHANGED poolFrame

\* refresh, line 55: let selector = self.inner.read().clone()
RefreshClone(t) ==
    /\ refreshers[t].pc = "clone"
    /\ refreshers' = [refreshers EXCEPT ![t].pc = "run", ![t].sel = inner]
    /\ op' = "refresh_clone"
    /\ arg' = t
    /\ ret' = None
    /\ UNCHANGED <<dyn_proxies, heap, inner, since_swap, swapped, setter>>
    /\ UNCHANGED poolFrame

\* refresh, line 56: selector.refresh(proxies), and the clone is dropped
RefreshRun(t) ==
    /\ refreshers[t].pc = "run"
    /\ refreshers' = [refreshers EXCEPT ![t] = NoRefresher]
    /\ heap' = Collect([heap EXCEPT ![refreshers[t].sel] =
                           StrategyRefresh(@, refreshers[t].list)],
                       PoolOwners(inner, refreshers'))
    /\ op' = "refresh_run"
    /\ arg' = t
    /\ ret' = None
    /\ UNCHANGED <<dyn_proxies, inner, since_swap, swapped, setter>>
    /\ UNCHANGED poolFrame

\* set_strategy, lines 30-35: the new strategy
SetBuild(k, interval) ==
    /\ setter.pc = "idle"
    /\ setter' = [pc |-> "copy", copy |-> <<>>,
                  selector |-> StrategyNew(k, interval, now)]
    /\ op' = "set_build"
    /\ arg' = KindIndex(k)
    /\ ret' = None
    /\ UNCHANGED <<dyn_proxies, heap, inner, since_swap, swapped,
                   refreshers>>
    /\ UNCHANGED poolFrame

\* set_strategy, line 38: let proxies = self.proxies.read().clone()
SetCopy ==
    /\ setter.pc = "copy"
    /\ setter' = [setter EXCEPT !.pc = "refresh",
                                !.copy = CarryOver(dyn_proxies)]
    /\ op' = "set_copy"
    /\ arg' = 0
    /\ ret' = None
    /\ UNCHANGED <<dyn_proxies, heap, inner, since_swap, swapped,
                   refreshers>>
    /\ UNCHANGED poolFrame

\* set_strategy, line 39: selector.refresh(proxies)
SetRefresh ==
    /\ setter.pc = "refresh"
    /\ setter' = [setter EXCEPT !.pc = "store",
                                !.selector = StrategyRefresh(@, setter.copy)]
    /\ op' = "set_refresh"
    /\ arg' = 0
    /\ ret' = None
    /\ UNCHANGED <<dyn_proxies, heap, inner, since_swap, swapped,
                   refreshers>>
    /\ UNCHANGED poolFrame

\* set_strategy, line 41: *self.inner.write() = selector
SetStore ==
    /\ setter.pc = "store"
    /\ LET new == FreeId(PoolOwners(inner, refreshers)) IN
       /\ heap' = Collect([heap EXCEPT ![new] = setter.selector],
                          PoolOwners(new, refreshers))
       /\ inner' = new
    /\ setter' = NoSetter
    /\ since_swap' = TrackerNew
    /\ swapped' = TRUE
    /\ op' = "set_store"
    /\ arg' = 0
    /\ ret' = None
    /\ UNCHANGED <<dyn_proxies, refreshers>>
    /\ UNCHANGED poolFrame

\* The strategies set_strategy is called with here: the lists are handled
\* alike by all four.
PoolKinds == {RoundRobin}

PoolNext ==
    \/ \E t \in Refreshers : \E list \in HandlerPools :
          RefreshStore(t, list)
    \/ \E t \in Refreshers : RefreshClone(t)
    \/ \E t \in Refreshers : RefreshRun(t)
    \/ \E k \in PoolKinds : SetBuild(k, 0)
    \/ SetCopy
    \/ SetRefresh
    \/ SetStore

PoolInit ==
    /\ DynInit
    /\ heap[0].kind \in HandlerKinds

SpecPool == PoolInit /\ [][PoolNext]_vars

\* ----------------------------------------------------------------- SpecRR
\* Concurrent select calls on one RoundRobinSelector, each split at the
\* read lock of the list, the fetch_add on the cursor and the return, with
\* a refresh call split at the two stores it makes under the write lock.
rrFrame == <<kind, current_index, last_rotation, rotation_interval_secs,
             connections, now, prev, nselect, acquired, released, underflow,
             threadVars, dynVars, handlerVars, serverVars, checkVars, relay,
             repoVars, poolVars, svcVars, wireVars>>

\* self.proxies.read() is granted: no writer holds the lock
ReadLockFree(writer) == writer = "idle"

\* Faulty variant: the write lock is granted while readers hold the list.
WriteLockFree_OverReaders(callers, writer) == writer = "idle"

\* self.proxies.write() is granted: no reader and no writer holds the lock
WriteLockFree(callers, writer) ==
    /\ writer = "idle"
    /\ \A t \in Threads : callers[t].pc = "idle"

\* Faulty variant: a load and a store that lose the increment.
FetchAdd_Lost(cursor) == cursor

\* index.fetch_add(1, Relaxed): the value the cursor has afterwards
FetchAdd(cursor) == cursor + 1

\* select, line 40: let proxies = self.proxies.read()
RRLock(t) ==
    /\ rr[t].pc = "idle"
    /\ ReadLockFree(rr_refresh)
    /\ rr' = [rr EXCEPT ![t].pc = "locked"]
    /\ op' = "rr_lock"
    /\ arg' = t
    /\ ret' = None
    /\ UNCHANGED <<proxies, index, rr_refresh, handed, served>>
    /\ UNCHANGED rrFrame

\* select, lines 42-48: the empty list returns NoProxiesAvailable and drops
\* the guard; else the cursor is fetched and incremented in one atomic
\* operation and reduced modulo the length
RRFetch(t) ==
    /\ rr[t].pc = "locked"
    /\ IF proxies = <<>>
         THEN /\ rr' = [rr EXCEPT ![t] = NoCaller]
              /\ ret' = NoProxiesAvailable
              /\ UNCHANGED <<index, handed>>
         ELSE /\ index < MaxIndex
              /\ rr' = [rr EXCEPT ![t] = [pc |-> "fetched",
                                          cursor |-> index,
                                          idx |-> index % Len(proxies)]]
              /\ index' = FetchAdd(index)
              /\ handed' = Append(handed, index)
              /\ ret' = None
    /\ op' = "rr_fetch"
    /\ arg' = t
    /\ UNCHANGED <<proxies, rr_refresh, served>>
    /\ UNCHANGED rrFrame

\* select, line 50: proxies.get(idx).cloned().ok_or(..), and the guard is
\* dropped
RRReturn(t) ==
    /\ rr[t].pc = "fetched"
    /\ ret' = VecGet(proxies, rr[t].idx)
    /\ served' = IF rr[t].idx < Len(proxies)
                   THEN [served EXCEPT ![rr[t].idx + 1] = @ + 1]
                   ELSE served
    /\ rr' = [rr EXCEPT ![t].pc = "idle"]
    /\ op' = "rr_return"
    /\ arg' = t
    /\ UNCHANGED <<proxies, index, rr_refresh, handed>>
    /\ UNCHANGED rrFrame

\* refresh, lines 54-55: the write lock, and the new list
RRRefreshList(list) ==
    /\ WriteLockFree(rr, rr_refresh)
    /\ proxies' = list
    /\ rr_refresh' = "stored"
    /\ op' = "rr_refresh_list"
    /\ arg' = 0
    /\ ret' = None
    /\ UNCHANGED <<index, rr, handed, served>>
    /\ UNCHANGED rrFrame

\* refresh, lines 57-58: index.store(0), and the write guard is dropped
RRRefreshIndex ==
    /\ rr_refresh = "stored"
    /\ index' = RoundRobinRefreshIndex(index)
    /\ handed' = <<>>
    /\ served' = [i \in 1..MaxLen |-> 0]
    /\ rr_refresh' = "idle"
    /\ op' = "rr_refresh"
    /\ arg' = 0
    /\ ret' = None
    /\ UNCHANGED <<proxies, rr>>
    /\ UNCHANGED rrFrame

RRNext ==
    \/ \E t \in Threads : RRLock(t)
    \/ \E t \in Threads : RRFetch(t)
    \/ \E t \in Threads : RRReturn(t)
    \/ \E list \in ProxyLists : RRRefreshList(list)
    \/ RRRefreshIndex

\* RoundRobinSelector::new
RRInit ==
    /\ Init
    /\ kind = RoundRobin

SpecRR == RRInit /\ [][RRNext]_vars

\* ---------------------------------------------------------- SpecTransport
\* ProxyTransport::connect(proxy, target_host, target_port) up to the first
\* packet to the upstream proxy, and the answer of the proxy.  Addresses
\* and hosts are the sequences of their characters.
DecDigits == <<"0", "1", "2", "3", "4", "5", "6", "7", "8", "9">>

\* The value of a decimal digit, or None
DigitOf(ch) ==
    IF \E i \in DOMAIN DecDigits : DecDigits[i] = ch
      THEN (CHOOSE i \in DOMAIN DecDigits : DecDigits[i] = ch) - 1
      ELSE None

\* format!("{}", n) of an unsigned number
RECURSIVE FormatDec(_)
FormatDec(n) ==
    IF n < 10 THEN <<DecDigits[n + 1]>>
    ELSE FormatDec(n \div 10) \o <<DecDigits[(n % 10) + 1]>>

\* The value of a text of decimal digits no larger than limit, or None
RECURSIVE DecValue(_, _, _)
DecValue(text, acc, limit) ==
    IF text = <<>> THEN acc
    ELSE IF DigitOf(Head(text)) = None THEN None
    ELSE IF 10 * acc + DigitOf(Head(text)) > limit THEN None
    ELSE DecValue(Tail(text), 10 * acc + DigitOf(Head(text)), limit)

\* The place of the last ":" of a text, or 0
LastColon(text) ==
    IF \E i \in DOMAIN text : text[i] = ":"
      THEN CHOOSE i \in DOMAIN text :
               /\ text[i] = ":"
               /\ \A j \in (i + 1)..Len(text) : text[j] /= ":"
      ELSE 0

\* The parts of a text between its dots
RECURSIVE DotParts(_, _)
DotParts(text, part) ==
    IF text = <<>> THEN <<part>>
    ELSE IF Head(text) = "." THEN <<part>> \o DotParts(Tail(text), <<>>)
    ELSE DotParts(Tail(text), Append(part, Head(text)))

\* One number of a dotted IPv4 address: one to three digits, at most 255,
\* no leading zero
OctetOk(part) ==
    /\ Len(part) \in 1..3
    /\ DecValue(part, 0, 255) /= None
    /\ Len(part) > 1 => part[1] /= "0"

\* str::parse::<Ipv4Addr>().is_ok()
ParseIpv4Ok(text) ==
    LET parts == DotParts(text, <<>>) IN
    /\ Len(parts) = 4
    /\ \A i \in DOMAIN parts : OctetOk(parts[i])

\* The bracketed IPv6 literals among the hosts below.
Ipv6Literals == {<<"[", ":", ":", "1", "]">>}

\* str::parse::<SocketAddr>().is_ok(): an IPv4 address or a bracketed IPv6
\* address, a colon and a port; a name is no address
ParseSocketAddrOk(text) ==
    LET at == LastColon(text) IN
    /\ at /= 0
    /\ at < Len(text)
    /\ DecValue(SubSeq(text, at + 1, Len(text)), 0, U16Max) /= None
    /\ \/ ParseIpv4Ok(SubSeq(text, 1, at - 1))
       \/ SubSeq(text, 1, at - 1) \in Ipv6Literals

\* proxy.protocol.to_lowercase(), for the protocols below
ProtocolLowercase(protocol) ==
    CASE protocol = "SOCKS5" -> "socks5"
      [] protocol = "Socks4a" -> "socks4a"
      [] OTHER -> protocol

\* format!("{}:{}", target_host, target_port)
TargetText(host, port) == host \o <<":">> \o FormatDec(port)

Contacted == [stage |-> "contacted", error |-> "none"]
LocalError(e) == [stage |-> "local_error", error |-> e]

\* connect_socks4, lines 105-117
ConnectSocks4(address, host, port) ==
    IF ~ParseIpv4Ok(host) THEN LocalError("ProxyConnectionFailed")
    ELSE IF ~ParseSocketAddrOk(address)
      THEN LocalError("InvalidProxyAddress")
    ELSE Contacted

\* connect_socks4a, lines 140-147, and connect_socks5, lines 175-182
ConnectSocks(address, host, port) ==
    IF ~ParseSocketAddrOk(address) THEN LocalError("InvalidProxyAddress")
    ELSE IF ~ParseSocketAddrOk(TargetText(host, port))
      THEN LocalError("InvalidRequest")
    ELSE Contacted

\* ProxyTransport::connect, lines 28-35, up to the first await on the
\* network
ConnectStage(protocol, address, host, port) ==
    LET lower == ProtocolLowercase(protocol) IN
    CASE lower \in {"http", "https"} -> Contacted
      [] lower = "socks4" -> ConnectSocks4(address, host, port)
      [] lower \in {"socks4a", "socks5"} -> ConnectSocks(address, host, port)
      [] OTHER -> LocalError("UnsupportedProtocol")

\* The protocol column of the upstream proxy.
Protocols ==
    {"http", "https", "socks4", "socks4a", "socks5", "SOCKS5", "Socks4a",
     "ftp"}

\* The address column: 1.2.3.4:80 and p.x:80.
Addresses ==
    {<<"1", ".", "2", ".", "3", ".", "4", ":", "8", "0">>,
     <<"p", ".", "x", ":", "8", "0">>}

\* The target hosts: 1.2.3.4, a.b, 1.2.3, 256.1.1.1 and [::1].
Hosts ==
    {<<"1", ".", "2", ".", "3", ".", "4">>,
     <<"a", ".", "b">>,
     <<"1", ".", "2", ".", "3">>,
     <<"2", "5", "6", ".", "1", ".", "1", ".", "1">>,
     <<"[", ":", ":", "1", "]">>}

\* The target ports.
Ports == {80, 443, U16Max}

transportFrame == <<firstVars, dynVars, handlerVars, serverVars, checkVars,
                    relay, repoVars, poolVars, rrVars, svcVars, fwd, now>>

TransportConnect(protocol, address, host, port) ==
    /\ LET r == ConnectStage(protocol, address, host, port) IN
       transport' = [protocol |-> protocol, address |-> address,
                     host |-> host, port |-> port,
                     stage |-> r.stage, error |-> r.error]
    /\ op' = "connect"
    /\ arg' = 0
    /\ ret' = None
    /\ UNCHANGED transportFrame

\* The upstream proxy answers the negotiation, or the connection fails.
TransportAnswer(ok) ==
    /\ transport.stage = "contacted"
    /\ transport' = IF ok
                      THEN [transport EXCEPT !.stage = "established"]
                      ELSE [transport EXCEPT
                               !.stage = "failed",
                               !.error = "ProxyConnectionFailed"]
    /\ op' = "answer"
    /\ arg' = 0
    /\ ret' = None
    /\ UNCHANGED transportFrame

TransportNext ==
    \/ \E protocol \in Protocols : \E address \in Addresses :
          \E host \in Hosts : \E port \in Ports :
             TransportConnect(protocol, address, host, port)
    \/ \E ok \in BOOLEAN : TransportAnswer(ok)

TransportInit ==
    /\ SelectorInit
    /\ kind = Random
    /\ RestInit

SpecTransport == TransportInit /\ [][TransportNext]_vars

\* ------------------------------------------------------------ SpecForward
\* The headers of the outbound request that forward_request builds from
\* the headers of the client's request and the credentials of the selected
\* upstream proxy.  A header is its name and its value, the value the
\* sequence of its characters.
\* Most headers of one client request.
MaxHeaders == 2

\* The header names as the client writes them.
WireNames ==
    {"Connection", "Keep-Alive", "PROXY-AUTHENTICATE", "Proxy-Authorization",
     "TE", "trailers", "Transfer-Encoding", "upgrade",
     "Host", "Trailer", "X-Te"}

\* The name as the HeaderMap of the parsed request holds it, and
\* name.to_lowercase() (line 559): ASCII letters in lower case
AsciiLowercase(name) ==
    CASE name = "Connection" -> "connection"
      [] name = "Keep-Alive" -> "keep-alive"
      [] name = "PROXY-AUTHENTICATE" -> "proxy-authenticate"
      [] name = "Proxy-Authorization" -> "proxy-authorization"
      [] name = "TE" -> "te"
      [] name = "Transfer-Encoding" -> "transfer-encoding"
      [] name = "Host" -> "host"
      [] name = "Trailer" -> "trailer"
      [] name = "X-Te" -> "x-te"
      [] OTHER -> name

\* One group of up to three bytes in four characters
EncodeGroup(g) ==
    LET b1 == g[1]
        b2 == IF Len(g) >= 2 THEN g[2] ELSE 0
        b3 == IF Len(g) >= 3 THEN g[3] ELSE 0
    IN  <<B64Alphabet[(b1 \div 4) + 1],
          B64Alphabet[((b1 % 4) * 16) + (b2 \div 16) + 1],
          IF Len(g) >= 2
            THEN B64Alphabet[((b2 % 16) * 4) + (b3 \div 64) + 1] ELSE "=",
          IF Len(g) >= 3 THEN B64Alphabet[(b3 % 64) + 1] ELSE "=">>

\* base64::Engine::encode(&STANDARD, credentials), lines 456-457
RECURSIVE Base64Encode(_)
Base64Encode(bytes) ==
    IF bytes = <<>> THEN <<>>
    ELSE IF Len(bytes) <= 3 THEN EncodeGroup(bytes)
    ELSE EncodeGroup(SubSeq(bytes, 1, 3))
            \o Base64Encode(SubSeq(bytes, 4, Len(bytes)))

\* format!("Basic {}", encoded) of format!("{}:{}", username, password)
BasicCredentials(username, password) ==
    BasicPrefix \o Base64Encode(username \o <<Colon>> \o password)

\* The credentials of the client at this proxy: "c" and "d".
ClientAuthValue == BasicCredentials(<<99>>, <<100>>)

\* The value the client sends with a header.
WireValue(name) ==
    IF AsciiLowercase(name) = "proxy-authorization"
      THEN ClientAuthValue ELSE <<"v">>

\* The header lists of the client requests.
WireHeaders == UNION {[1..n -> WireNames] : n \in 0..MaxHeaders}

\* parts.headers: the request as hyper parsed it, the names in lower case
ParsedHeaders(names) ==
    [i \in DOMAIN names |->
        [name |-> AsciiLowercase(names[i]), value |-> WireValue(names[i])]]

\* username and password of the upstream proxy: none, "x", "y" or empty.
Upstreams ==
    [username : {NoneString, SomeString(<<120>>)},
     password : {NoneString, SomeString(<<121>>), SomeString(<<>>)}]

\* Faulty variant: the credentials of the client pass the filter.
IsHopByHopHeader_AuthPasses(name) ==
    AsciiLowercase(name) \in
        {"connection", "keep-alive", "proxy-authenticate", "te", "trailers",
         "transfer-encoding", "upgrade"}

\* is_hop_by_hop_header, lines 557-569
IsHopByHopHeader(name) ==
    AsciiLowercase(name) \in
        {"connection", "keep-alive", "proxy-authenticate",
         "proxy-authorization", "te", "trailers", "transfer-encoding",
         "upgrade"}

\* forward_request, lines 447-451: the headers the builder is given
RECURSIVE CopyHeaders(_)
CopyHeaders(headers) ==
    IF headers = <<>> THEN <<>>
    ELSE IF IsHopByHopHeader(Head(headers).name)
      THEN CopyHeaders(Tail(headers))
    ELSE <<Head(headers)>> \o CopyHeaders(Tail(headers))

\* forward_request, lines 454-459: the header of the upstream credentials
UpstreamAuth(upstream) ==
    IF upstream.username.some /\ upstream.password.some
      THEN <<[name |-> "proxy-authorization",
              value |-> BasicCredentials(upstream.username.bytes,
                                         upstream.password.bytes)]>>
      ELSE <<>>

forwardFrame == <<firstVars, dynVars, handlerVars, serverVars, checkVars,
                  relay, repoVars, poolVars, rrVars, svcVars, transport,
                  now>>

\* handle_http hands forward_request the parsed request and the selected
\* proxy; forward_request keeps nothing between two calls, so one call is
\* followed.
ForwardBegin(names, upstream) ==
    /\ fwd = NoForward
    /\ fwd' = [headers |-> ParsedHeaders(names),
               upstream |-> upstream,
               out |-> <<>>]
    /\ op' = "parts"
    /\ arg' = Len(names)
    /\ ret' = None
    /\ UNCHANGED forwardFrame

\* forward_request, lines 441-463: the outbound request
ForwardRequest ==
    /\ op = "parts"
    /\ fwd' = [fwd EXCEPT
                 !.out = CopyHeaders(fwd.headers) \o UpstreamAuth(fwd.upstream)]
    /\ op' = "forward"
    /\ arg' = Len(fwd.headers)
    /\ ret' = None
    /\ UNCHANGED forwardFrame

ForwardNext ==
    \/ \E names \in WireHeaders : \E upstream \in Upstreams :
          ForwardBegin(names, upstream)
    \/ ForwardRequest

ForwardInit ==
    /\ SelectorInit
    /\ kind = Random
    /\ RestInit

SpecForward == ForwardInit /\ [][ForwardNext]_vars

\* ----------------------------------------------------------- SpecServices
\* The tables proxies and deleted_proxies under the health checker, the
\* auto-archive service and the restore request of the API, which run as
\* tasks of their own.  Each task is split at its statements on the database and
\* at its refresh of the selector; a refresh is one step here.  The
\* address of a proxy is ordered as its id.

\* batch_limit of ProxyAutoDeleteConfig
BatchLimits == {1, 2}

\* archive_expired_failed, line 310: limit.clamp(1, 1000)
ArchiveLimitMin == 1
ArchiveLimitMax == 1000
ClampLimit(limit) ==
    IF limit < ArchiveLimitMin THEN ArchiveLimitMin
    ELSE IF limit > ArchiveLimitMax THEN ArchiveLimitMax
    ELSE limit

\* The ids of the rows of a table.
RowIds(table) == {id \in SvcIds : table[id] /= NoRow}

\* ORDER BY address: the ids in a list
RECURSIVE ByAddress(_)
ByAddress(ids) ==
    IF ids = {} THEN <<>>
    ELSE LET first == CHOOSE id \in ids : \A other \in ids : id <= other
         IN  <<first>> \o ByAddress(ids \ {first})

\* get_all, lines 61-77
GetAll(t) == ByAddress(RowIds(t.proxies))

\* Faulty variant: the rows that failed are read as well.
GetAllUsable_All(t) == ByAddress(RowIds(t.proxies))

\* get_all_usable, lines 41-58
GetAllUsable(t) ==
    ByAddress({id \in RowIds(t.proxies) :
                  t.proxies[id].status \in {"active", "idle"}})

\* The list a service refreshes the selector with (health.rs lines 136-140,
\* proxy_auto_delete.rs lines 116-120, deleted_proxy.rs lines 86-90)
RefreshList(t, remove_unhealthy) ==
    IF remove_unhealthy THEN GetAllUsable(t) ELSE GetAll(t)

\* archive_expired_failed, lines 314-323: the candidates
Candidates(t, at) == {id \in RowIds(t.proxies) : Expired(t.proxies[id], at)}

\* The smaller of two numbers.
Least(a, b) == IF a <= b THEN a ELSE b

\* Faulty variant: any candidates are taken, not the oldest.
ArchiveBatches_AnyOrder(t, at, limit) ==
    {b \in SUBSET Candidates(t, at) :
        Cardinality(b)
            = Least(Cardinality(Candidates(t, at)), ClampLimit(limit))}

\* archive_expired_failed, lines 322-323: ORDER BY invalid_since ASC
\* LIMIT $1, in each order the database can give to equal values
ArchiveBatches(t, at, limit) ==
    {b \in SUBSET Candidates(t, at) :
        /\ Cardinality(b)
              = Least(Cardinality(Candidates(t, at)), ClampLimit(limit))
        /\ \A id \in b : \A other \in Candidates(t, at) \ b :
              t.proxies[id].invalid_since
                  <= t.proxies[other].invalid_since}

\* archive_expired_failed, lines 325-345: the rows of the batch that
\* deleted_proxies takes (ON CONFLICT (id) DO NOTHING)
Inserted(t, batch) == {id \in batch : t.deleted_proxies[id] = NoRow}

\* archive_expired_failed, lines 312-351: the tables after the statement
ArchiveRows(t, batch) ==
    [proxies |->
        [id \in SvcIds |->
            IF id \in Inserted(t, batch) THEN NoRow ELSE t.proxies[id]],
     deleted_proxies |->
        [id \in SvcIds |->
            IF id \in Inserted(t, batch)
              THEN [t.proxies[id] EXCEPT !.table = "deleted_proxies"]
              ELSE t.deleted_proxies[id]]]

\* Faulty variant: the archived row stays in deleted_proxies.
RestoreRows_KeepArchived(t, id) ==
    [t EXCEPT !.proxies[id] = RestoreRow(t.deleted_proxies[id])]

\* DeletedProxyRepository::restore, lines 113-163: the tables after the
\* transaction
RestoreRows(t, id) ==
    [proxies |-> [t.proxies EXCEPT ![id] = RestoreRow(t.deleted_proxies[id])],
     deleted_proxies |-> [t.deleted_proxies EXCEPT ![id] = NoRow]]

\* record_health_check on the row of id, if the table has it
RecordHealthCheckRows(t, id, success, at) ==
    IF t.proxies[id] = NoRow THEN t
    ELSE [t EXCEPT !.proxies[id] = HealthCheckRow(@, success, at)]

\* The proxies the selector selects from.
SelectorPool == Range(heap[inner].proxies)

svcFrame == <<firstVars, inner, held, since_swap, swapped, handlerVars,
              serverVars, checkVars, relay, repoVars, poolVars, rrVars,
              wireVars, settings>>

\* DynamicProxySelector::refresh(list), called by a service
SelectorRefresh(list) ==
    /\ dyn_proxies' = list
    /\ heap' = [heap EXCEPT ![inner] = StrategyRefresh(@, list)]

\* check_all_proxies, line 103: get_all
HcStart ==
    /\ hc.pc = "idle"
    /\ hc' = [pc |-> "probing", todo |-> RowIds(tbl.proxies),
              list |-> <<>>, recovered |-> {}, bad |-> {}]
    /\ op' = "hc_get_all"
    /\ arg' = 0
    /\ ret' = None
    /\ UNCHANGED <<tbl, scan, dyn_proxies, heap, now>>
    /\ UNCHANGED svcFrame

\* check_all_proxies, lines 110-127: the probe of one proxy ends and its
\* result is recorded; recovered keeps the failed rows that the tick made
\* active and bad the rows it made failed
HcProbe(id, success) ==
    /\ hc.pc = "probing"
    /\ id \in hc.todo
    /\ tbl' = RecordHealthCheckRows(tbl, id, success, now)
    /\ ret' = IF success THEN 1 ELSE 0
    /\ hc' = [hc EXCEPT
                !.todo = @ \ {id},
                !.recovered = IF success /\ tbl.proxies[id] /= NoRow
                                 /\ tbl.proxies[id].status = "failed"
                                THEN @ \cup {id} ELSE @,
                !.bad = IF ~success /\ tbl.proxies[id] /= NoRow
                          THEN @ \cup {id} ELSE @]
    /\ op' = "hc_record"
    /\ arg' = id
    /\ UNCHANGED <<scan, dyn_proxies, heap, now>>
    /\ UNCHANGED svcFrame

\* check_all_proxies, lines 136-140: the list is read again
HcFetch ==
    /\ hc.pc = "probing"
    /\ hc.todo = {}
    /\ hc' = [hc EXCEPT !.pc = "fetched",
                        !.list = RefreshList(tbl, settings.remove_unhealthy)]
    /\ op' = "hc_fetch"
    /\ arg' = 0
    /\ ret' = None
    /\ UNCHANGED <<tbl, scan, dyn_proxies, heap, now>>
    /\ UNCHANGED svcFrame

\* check_all_proxies, lines 141-143: selector.refresh(refreshed_proxies)
HcRefresh ==
    /\ hc.pc = "fetched"
    /\ SelectorRefresh(hc.list)
    /\ hc' = [hc EXCEPT !.pc = "idle", !.list = <<>>]
    /\ op' = "hc_refresh"
    /\ arg' = 0
    /\ ret' = None
    /\ UNCHANGED <<tbl, scan, now>>
    /\ UNCHANGED svcFrame

\* scan_and_archive, lines 107-111: one batch is archived; an empty batch
\* ends the scan.  A row that leaves the table is no longer one the tick
\* wrote last.
ScanArchive ==
    /\ scan.pc \in {"idle", "loop"}
    /\ \E batch \in ArchiveBatches(tbl, now, settings.batch_limit) :
          /\ tbl' = ArchiveRows(tbl, batch)
          /\ scan' = [pc |-> IF Inserted(tbl, batch) = {} THEN "idle"
                             ELSE "archived",
                      batch |-> Inserted(tbl, batch),
                      list |-> <<>>]
          /\ hc' = [hc EXCEPT !.recovered = @ \ Inserted(tbl, batch),
                              !.bad = @ \ Inserted(tbl, batch)]
    /\ op' = "archive"
    /\ arg' = 0
    /\ ret' = None
    /\ UNCHANGED <<dyn_proxies, heap, now>>
    /\ UNCHANGED svcFrame

\* scan_and_archive, lines 116-120
ScanFetch ==
    /\ scan.pc = "archived"
    /\ scan' = [scan EXCEPT
                  !.pc = "fetched",
                  !.list = RefreshList(tbl, settings.remove_unhealthy)]
    /\ op' = "scan_fetch"
    /\ arg' = 0
    /\ ret' = None
    /\ UNCHANGED <<tbl, hc, dyn_proxies, heap, now>>
    /\ UNCHANGED svcFrame

\* scan_and_archive, lines 121-128: the refresh, and one more batch if
\* this one was full
ScanRefresh ==
    /\ scan.pc = "fetched"
    /\ SelectorRefresh(scan.list)
    /\ scan' = [pc |-> IF Cardinality(scan.batch) < settings.batch_limit
                          THEN "idle" ELSE "loop",
                batch |-> {},
                list |-> <<>>]
    /\ op' = "scan_refresh"
    /\ arg' = 0
    /\ ret' = None
    /\ UNCHANGED <<tbl, hc, now>>
    /\ UNCHANGED svcFrame

\* restore_deleted_proxy, lines 60-79, with refresh_selector, lines
\* 82-92, in one step.  An id that is not archived gives None and the
\* handler answers NotFound; an id that both tables have fails on
\* proxies_pkey and the transaction is rolled back.  A row that comes
\* back is no longer one the tick wrote last.
ApiRestore(id) ==
    /\ IF tbl.deleted_proxies[id] = NoRow
         THEN /\ ret' = None
              /\ UNCHANGED <<tbl, hc, dyn_proxies, heap>>
         ELSE IF tbl.proxies[id] /= NoRow
         THEN /\ ret' = BAD_REQUEST
              /\ UNCHANGED <<tbl, hc, dyn_proxies, heap>>
         ELSE /\ ret' = id
              /\ tbl' = RestoreRows(tbl, id)
              /\ hc' = [hc EXCEPT !.recovered = @ \ {id},
                                  !.bad = @ \ {id}]
              /\ SelectorRefresh(RefreshList(RestoreRows(tbl, id),
                                             settings.remove_unhealthy))
    /\ op' = "restore"
    /\ arg' = id
    /\ UNCHANGED <<scan, now>>
    /\ UNCHANGED svcFrame

\* Time passes.
SvcTick ==
    /\ now < MaxTime
    /\ now' = now + 1
    /\ op' = "tick"
    /\ arg' = 0
    /\ ret' = None
    /\ UNCHANGED <<tbl, hc, scan, dyn_proxies, heap>>
    /\ UNCHANGED svcFrame

ServicesNext ==
    \/ HcStart
    \/ \E id \in SvcIds : \E success \in BOOLEAN : HcProbe(id, success)
    \/ HcFetch
    \/ HcRefresh
    \/ ScanArchive
    \/ ScanFetch
    \/ ScanRefresh
    \/ \E id \in SvcIds : ApiRestore(id)
    \/ SvcTick

\* The proxies were created, each with its auto_delete_after_failed_seconds,
\* and no service has run; the selector is the one of main, not yet
\* refreshed.
ServicesInit ==
    /\ SelectorInit
    /\ kind = Random
    /\ dyn_proxies = <<>>
    /\ heap = [i \in ObjIds |->
                  IF i = 0 THEN StrategyNew(Random, 0, 0) ELSE Dropped]
    /\ inner = 0
    /\ held = None
    /\ since_swap = TrackerNew
    /\ swapped = FALSE
    /\ HandlerRest
    /\ ServerRest
    /\ CheckRest
    /\ TunnelRest
    /\ RepoRest
    /\ PoolRest
    /\ RRRest
    /\ WireRest
    /\ \E autos \in [SvcIds -> AutoDeletes] :
          tbl = [proxies |-> [id \in SvcIds |-> CreateRow(autos[id])],
                 deleted_proxies |-> [id \in SvcIds |-> NoRow]]
    /\ settings \in [remove_unhealthy : BOOLEAN, batch_limit : BatchLimits]
    /\ hc = NoTick
    /\ scan = NoScan

SpecServices == ServicesInit /\ [][ServicesNext]_vars

\* ================================================================ claims
\* C1: in every strategy, select fails with NoProxiesAvailable exactly when
\* the list of the latest refresh is empty, and otherwise returns an element
\* of that list.
C1_SelectFromCurrentList ==
    op = "select" =>
        /\ (ret = NoProxiesAvailable) <=> (proxies = <<>>)
        /\ proxies /= <<>> => ret \in Range(proxies)

\* A round-robin select whose cursor had run past the end of the list.
C1_Witness ==
    /\ op = "select"
    /\ kind = RoundRobin
    /\ index > Len(proxies) + 1
    /\ ret \in Range(proxies)

\* C2: round-robin, n = |P| >= 1: the i-th select after refresh(P)
\* (i = 0, 1, ...) returns P[i mod n].
C2_RoundRobinOrder ==
    (kind = RoundRobin /\ op = "select" /\ proxies /= <<>>) =>
        ret = proxies[((nselect - 1) % Len(proxies)) + 1]

\* The last select of the second full cycle over a list of MaxLen proxies.
C2_Witness ==
    /\ kind = RoundRobin
    /\ op = "select"
    /\ Len(proxies) = MaxLen
    /\ nselect = 2 * MaxLen
    /\ ret = proxies[MaxLen]

\* C3: least-connections select returns a proxy of the list with the minimal
\* count, the first such in list order; a single-proxy list gives that proxy.
C3_LeastConnFirstMinimal ==
    (kind = LeastConnections /\ op = "select" /\ proxies /= <<>>) =>
        /\ \E i \in DOMAIN proxies :
              /\ ret = proxies[i]
              /\ \A j \in DOMAIN proxies :
                    /\ connections[proxies[j]] >= connections[ret]
                    /\ j < i => connections[proxies[j]] > connections[ret]
        /\ Len(proxies) = 1 => ret = proxies[1]

\* A tie at a non-zero count between two proxies, listed against id order.
C3_Witness ==
    /\ kind = LeastConnections
    /\ op = "select"
    /\ Len(proxies) = 2
    /\ proxies[1] > proxies[2]
    /\ connections[proxies[1]] = connections[proxies[2]]
    /\ connections[proxies[1]] > 0
    /\ ret = proxies[1]

\* C4: every count is >= 0; acquire adds exactly 1; release subtracts
\* exactly 1 from a positive count and leaves a zero count at 0; so while no
\* release of id has met a zero count, the count of id is the number of its
\* acquires minus the number of its releases (0 after k of each).
C4_CountInvariant ==
    \A id \in ProxyIds :
        /\ TrackerGet(connections, id) >= 0
        /\ id \notin underflow =>
              TrackerGet(connections, id) = acquired[id] - released[id]

C4_CountSteps ==
    /\ op' = "acquire" =>
          connections' = [connections EXCEPT ![arg'] = connections[arg'] + 1]
    /\ op' = "release" =>
          connections' =
              [connections EXCEPT
                  ![arg'] = IF connections[arg'] > 0
                              THEN connections[arg'] - 1
                              ELSE 0]

C4_TrackerCounts == []C4_CountInvariant /\ [][C4_CountSteps]_vars

\* MaxConn acquires of an id and as many releases, none at count 0.
C4_Witness ==
    /\ op = "release"
    /\ acquired[arg] = MaxConn
    /\ released[arg] = MaxConn
    /\ arg \notin underflow
    /\ TrackerGet(connections, arg) = 0

\* A call acquire(id) or release(id) with id outside the current list.
UnknownIdCall ==
    /\ op' \in {"acquire", "release"}
    /\ arg' \notin Range(proxies)

\* C5 as claimed: acquire(id) and release(id) for an id that is not in the
\* current list change nothing a later select can see, whatever list a later
\* refresh installs.
C5_UnknownIdIsNoOp ==
    [][UnknownIdCall =>
         /\ UNCHANGED selectorVars
         /\ kind = LeastConnections =>
               \A list \in ProxyLists :
                   LeastConnPick(list, connections') =
                       LeastConnPick(list, connections)]_vars

\* C5 as amended: such a call leaves the list and the cursors alone and
\* changes no select result for any list without id (the current list is
\* one); the tracker still counts it: acquire adds 1 to the count of id,
\* release subtracts 1 from a positive count and leaves a zero count, and
\* no other id's count changes.
C5_UnknownIdCounted ==
    [][UnknownIdCall =>
         /\ UNCHANGED selectorVars
         /\ \A list \in ProxyLists :
               arg' \notin Range(list) =>
                   LeastConnPick(list, connections') =
                       LeastConnPick(list, connections)
         /\ \A id \in ProxyIds \ {arg'} : connections'[id] = connections[id]
         /\ op' = "acquire" => connections'[arg'] = connections[arg'] + 1
         /\ op' = "release" =>
               connections'[arg'] =
                   IF connections[arg'] > 0 THEN connections[arg'] - 1 ELSE 0]_vars

\* Least-connections: an id outside the list has been acquired and would
\* now lose a select against the listed proxy if a refresh put it first.
C5_Witness ==
    /\ kind = LeastConnections
    /\ op = "acquire"
    /\ arg \notin Range(proxies)
    /\ proxies /= <<>>
    /\ LeastConnPick(<<arg>> \o proxies, connections) /= arg

\* C6: least-connections refresh replaces the list only: every id's count is
\* the same after it as before it.
C6_RefreshKeepsCounts ==
    [][(kind = LeastConnections /\ op' = "refresh") =>
         \A id \in ProxyIds :
             TrackerGet(connections', id) = TrackerGet(connections, id)]_vars

\* After a refresh of a non-empty list by another one, a listed id and an
\* unlisted id both hold connections.
C6_Witness ==
    /\ kind = LeastConnections
    /\ op = "refresh"
    /\ prev.len > 0
    /\ \E id \in Range(proxies) : connections[id] > 0
    /\ \E id \in ProxyIds \ Range(proxies) : connections[id] > 0

\* C7: time-based select on a non-empty list: while less than the interval
\* has passed since last_rotation it returns the proxy at the unchanged
\* index (the one the select before it returned); once the interval has
\* passed it moves the index one position on, modulo the length, and returns
\* that proxy.
C7_TimeBasedRotation ==
    [][(kind = TimeBased /\ op' = "select" /\ proxies /= <<>>) =>
         IF now - last_rotation < rotation_interval_secs
           THEN /\ current_index' = current_index
                /\ last_rotation' = last_rotation
                /\ ret' = proxies[current_index + 1]
                /\ ret /= None => ret' = ret
           ELSE /\ current_index' = (current_index + 1) % Len(proxies)
                /\ last_rotation' = now
                /\ ret' = proxies[current_index' + 1]]_vars

\* A select one second after the rotation of second 2, interval 2.
C7_Witness ==
    /\ kind = TimeBased
    /\ op = "select"
    /\ Len(proxies) = 2
    /\ rotation_interval_secs = 2
    /\ last_rotation = 2
    /\ now = 3
    /\ current_index = 1
    /\ ret = proxies[2]

\* C8: concurrent time-based selects, interval >= 1 s: whenever the index
\* advances it advances by one position, and the clock reading of the caller
\* that advances it is at least the interval later than the reading of the
\* advance before it (last_rotation holds that reading), so no interleaving
\* gives two advances for one interval.
C8_OneAdvancePerInterval ==
    [][(rotation_interval_secs >= 1 /\
        (current_index' /= current_index \/ last_rotation' /= last_rotation))
       =>
         /\ last_rotation' - last_rotation >= rotation_interval_secs
         /\ current_index' = (current_index + 1) % Len(proxies)]_vars

\* A caller that saw the interval passed, waited for the write locks while
\* another caller rotated, and was stopped by the second comparison.
C8_Witness ==
    /\ op = "skipped"
    /\ rotation_interval_secs >= 1
    /\ Len(proxies) >= 2
    /\ current_index = 1

\* C9: time-based: a non-empty list has 0 <= current_index < len; select on
\* the empty list fails, and on a one-proxy list returns that proxy.
C9_TimeBasedIndexInRange ==
    kind = TimeBased =>
        /\ proxies /= <<>> =>
              (0 <= current_index /\ current_index < Len(proxies))
        /\ (op = "select" /\ proxies = <<>>) => ret = NoProxiesAvailable
        /\ (op = "select" /\ Len(proxies) = 1) => ret = proxies[1]

\* A refresh from the empty list to a list that the index left over from a
\* longer list would overrun.
C9_Witness ==
    /\ kind = TimeBased
    /\ op = "refresh"
    /\ prev.len = 0
    /\ proxies /= <<>>
    /\ prev.idx >= Len(proxies)

\* C10: a refresh(P) right after a refresh(P) changes nothing: the list, the
\* cursors, the counts and last_rotation stay, and the round-robin cursor is
\* 0, so that the next select returns P[0].
C10_RefreshIdempotent ==
    [][(op = "refresh" /\ op' = "refresh" /\ proxies' = proxies) =>
         /\ index' = index
         /\ current_index' = current_index
         /\ last_rotation' = last_rotation
         /\ connections' = connections
         /\ (kind = RoundRobin /\ proxies /= <<>>) =>
               (index' = 0 /\ RoundRobinPick(proxies', index') = proxies[1])]_vars

\* The second refresh of a time-based selector that had rotated to index 1.
C10_Witness ==
    /\ kind = TimeBased
    /\ op = "refresh"
    /\ prev.again
    /\ current_index = 1

\* The strategy object behind DynamicProxySelector.inner.
Active == heap[inner]

C11_Installed ==
    /\ op' = "set_strategy" =>
          /\ \A k \in Kinds :
                KindIndex(k) = arg' => StrategyName(heap'[inner']) = k
          /\ AvailableCount(heap'[inner']) = Len(dyn_proxies)
          /\ dyn_proxies' = dyn_proxies
    /\ (op' = "select" /\ swapped) =>
          /\ ret' = NoProxiesAvailable <=> dyn_proxies = <<>>
          /\ ret' /= NoProxiesAvailable => ret' \in Range(dyn_proxies)
          /\ StrategyName(Active) = LeastConnections =>
                ret' = LeastConnPick(dyn_proxies, since_swap)

C11_ServedByNew ==
    swapped =>
        /\ Active.proxies = dyn_proxies
        /\ \A id \in ProxyIds :
              TrackerGet(Active.connections, id) = since_swap[id]

\* C11: after set_strategy(kind, interval) on a pool P, strategy_name is
\* kind's name and available_count is |P|; from then on the active strategy
\* holds P (or the list of a later refresh) and the counts of the acquire and
\* release calls made since the swap only, so that select returns an element
\* of the pool, and under least-connections the first proxy of the pool with
\* the fewest connections acquired since the swap.
C11_HotSwap == []C11_ServedByNew /\ [][C11_Installed]_vars

\* The hot swap of dynamic.rs's test, for a pool of two: round-robin has
\* served a select, the strategy is swapped to least-connections, P1 is
\* acquired, and select returns P2.
C11_Witness ==
    /\ op = "select"
    /\ swapped
    /\ StrategyName(Active) = LeastConnections
    /\ dyn_proxies = <<1, 2>>
    /\ since_swap[1] = 1
    /\ since_swap[2] = 0
    /\ ret = 2

\* The strategy object the running select cloned.
Held == heap[held]

C12_RunsOnItsClone ==
    op' = "run" =>
        /\ ret' = NoProxiesAvailable <=> Held.proxies = <<>>
        /\ ret' /= NoProxiesAvailable => ret' \in Range(Held.proxies)
        /\ (StrategyName(Held) = RoundRobin /\ Held.proxies /= <<>>) =>
              /\ ret' = VecGet(Held.proxies, Held.index % Len(Held.proxies))
              /\ held = inner => heap'[held].index = Held.index + 1
        /\ StrategyName(Held) = LeastConnections =>
              ret' = LeastConnPick(Held.proxies, Held.connections)
        /\ held /= inner => heap'[inner] = heap[inner]

C12_NoneBlocks ==
    /\ \A k \in Kinds : \A interval \in SwapIntervals(k) :
          ENABLED DynSetStrategy(k, interval)
    /\ (held /= None /\ CursorInRange(Held)) => ENABLED SwapSelectRun
    /\ held = None => ENABLED SwapSelectClone

\* C12: a select that cloned strategy A runs on A whatever set_strategy has
\* installed since: its result is NoProxiesAvailable exactly when A's list is
\* empty and otherwise an element of A's list, taken at A's cursor (round
\* robin) or by A's counts (least connections), and it leaves the newly
\* installed strategy untouched; set_strategy can run while a select is
\* between its steps, and the select can finish after it.
C12_SelectCompletesUnderA == []C12_NoneBlocks /\ [][C12_RunsOnItsClone]_vars

\* A select finished on a strategy that had been replaced since its clone,
\* with a proxy the active strategy does not have.
C12_Witness ==
    /\ op = "run"
    /\ arg = 1
    /\ swapped
    /\ ret /= NoProxiesAvailable
    /\ Active.proxies /= <<>>
    /\ ret \notin Range(Active.proxies)

\* The last RequestRecord of the request.
LastRecord == records[Len(records)]

\* The request has been answered by the handler's own response.
Answered == h_pc = "done" /\ result = "Ok"

\* How far the retry loop has come: two for each attempt begun, less one
\* while the attempt is still running.
Progress == 2 * attempts - (IF h_pc = "attempt" THEN 1 ELSE 0)

C13_Bound ==
    method = "CONNECT" =>
        /\ attempts <= max_retries + 1
        /\ connects <= attempts
        /\ \A i \in 1..Len(records) : records[i].success => i = Len(records)
        /\ Answered =>
              /\ response \in {OK, SERVICE_UNAVAILABLE, BAD_GATEWAY}
              /\ response = OK <=> (records /= <<>> /\ LastRecord.success)
              /\ response = SERVICE_UNAVAILABLE <=> connects < attempts
              /\ response = BAD_GATEWAY <=>
                    /\ connects = max_retries + 1
                    /\ \A i \in 1..Len(records) : ~records[i].success
              /\ response = BAD_GATEWAY =>
                    last_error = LastRecord.error_message
        /\ h_pc = "loop" => ENABLED (LoopSelect \/ ConnectExhausted)
        /\ h_pc = "attempt" =>
              ENABLED ConnectOutcome([kind |-> "timeout", status |-> 0])

C13_Advances ==
    (method = "CONNECT" /\ h_pc \in {"loop", "attempt"}
       /\ op' \in {"select", "outcome", "exhausted"}) =>
        \/ h_pc' = "done"
        \/ Progress' > Progress

\* C13: a CONNECT request makes at most max_retries + 1 attempts and none
\* after a successful one; every step of its loop ends the request or brings
\* it nearer to the bound, and a step is always possible (the select
\* returns, the connect ends by connect_timeout at the latest); the response
\* is 200 exactly when the last attempt succeeded, 503 exactly when a select
\* failed, and 502, with the error of the last attempt, exactly when all
\* max_retries + 1 attempts failed or timed out.
C13_ConnectRetryBound == []C13_Bound /\ [][C13_Advances]_vars

\* A CONNECT request that used its retry and was answered 502.
C13_Witness ==
    /\ method = "CONNECT"
    /\ Answered
    /\ max_retries = MaxRetries
    /\ attempts = max_retries + 1
    /\ attempts >= 2
    /\ response = BAD_GATEWAY
    /\ last_error = "Timeout"

C14_Steps ==
    method = "CONNECT" =>
        /\ op' = "select" =>
              /\ Len(records) = attempts
              /\ records' = records
              /\ ret' /= NoProxiesAvailable => proxy' = ret'
        /\ op' = "outcome" =>
              /\ Len(records') = Len(records) + 1
              /\ \A i \in 1..Len(records) : records'[i] = records[i]
              /\ records'[Len(records')].proxy_id = proxy
              /\ IF records'[Len(records')].success
                   THEN /\ records'[Len(records')].status_code = OK
                        /\ h_pc' = "done"
                        /\ response' = OK
                   ELSE /\ records'[Len(records')].status_code = BAD_GATEWAY
                        /\ h_pc' = "loop"
        /\ op' \notin {"handle", "outcome"} => records' = records

C14_Records ==
    method = "CONNECT" =>
        /\ Len(records) = connects
        /\ connects = IF h_pc = "attempt" \/ response = SERVICE_UNAVAILABLE
                        THEN attempts - 1 ELSE attempts
        /\ \A i \in 1..Len(records) :
              /\ records[i].proxy_id \in ProxyIds
              /\ records[i].success <=> records[i].status_code = OK
              /\ ~records[i].success => records[i].status_code = BAD_GATEWAY
              /\ records[i].success =>
                    i = Len(records) /\ Answered /\ response = OK

\* C14: each CONNECT attempt that selected a proxy adds exactly one
\* RequestRecord, with the id of that proxy, when its connect has ended and
\* before the next select; the record of a failed or timed-out attempt has
\* success = false and status 502, that of the successful attempt has
\* success = true and status 200 and is the last of the request, which is
\* answered 200.
C14_ConnectRecords == []C14_Records /\ [][C14_Steps]_vars

\* P1 fails, P2 succeeds, max_retries = 1: the records P1/502 and P2/200.
C14_Witness ==
    /\ method = "CONNECT"
    /\ Answered
    /\ max_retries = 1
    /\ Len(records) = 2
    /\ records[1].proxy_id = 1
    /\ ~records[1].success
    /\ records[1].status_code = BAD_GATEWAY
    /\ records[2].proxy_id = 2
    /\ records[2].success
    /\ records[2].status_code = OK
    /\ response = OK

\* C15: a select of the request, at the first attempt or at a retry, in
\* CONNECT or in forwarding mode, fails exactly when the pool is empty, and
\* then ends the request at once with 503: no upstream connection is
\* started and no RequestRecord is added for that attempt, so a request
\* whose first select fails has no RequestRecord at all.
C15_SelectionFailure ==
    [][op' = "select" =>
         /\ ret' = NoProxiesAvailable <=> Active.proxies = <<>>
         /\ ret' = NoProxiesAvailable =>
               /\ h_pc' = "done"
               /\ result' = "Ok"
               /\ response' = SERVICE_UNAVAILABLE
               /\ connects' = connects
               /\ records' = records
               /\ heap' = heap
               /\ attempts = 0 => records' = <<>>
         /\ ret' /= NoProxiesAvailable => h_pc' = "attempt"]_vars

\* The select of a retry failed: the pool was emptied after the first
\* attempt, whose record is the only one of the request.
C15_Witness ==
    /\ Answered
    /\ response = SERVICE_UNAVAILABLE
    /\ attempts = 2
    /\ Len(records) = 1
    /\ connects = 1
    /\ Active.proxies = <<>>

C16_Steps ==
    (method = "GET" /\ op' = "outcome") =>
        /\ Len(records') = Len(records) + 1
        /\ records'[Len(records')].proxy_id = proxy
        /\ h_pc' = "done" <=> records'[Len(records')].success
        /\ h_pc' = "done" =>
              /\ result' = "Ok"
              /\ response' = records'[Len(records')].status_code
              /\ response' \in UpstreamStatuses

C16_Last ==
    method = "GET" =>
        /\ \A i \in 1..Len(records) :
              records[i].success =>
                  /\ i = Len(records)
                  /\ Answered
                  /\ response = records[i].status_code
                  /\ attempts = i
                  /\ connects = i
        /\ (Answered /\ response \notin {BAD_GATEWAY, SERVICE_UNAVAILABLE})
              => (records /= <<>> /\ LastRecord.success)

\* C16: in forwarding mode an attempt ends the request exactly when it got
\* a complete response: its record is the only one of the request with
\* success = true, it carries the proxy of the attempt and the status of the
\* upstream response, whatever that is, the client receives that status,
\* and neither a select nor a connection follows.
C16_ForwardingSuccess == []C16_Last /\ [][C16_Steps]_vars

\* The retry of a forwarding request got a 502 response from upstream: the
\* record says success with status 502.
C16_Witness ==
    /\ method = "GET"
    /\ Answered
    /\ Len(records) = 2
    /\ ~records[1].success
    /\ records[2].success
    /\ records[2].status_code = BAD_GATEWAY
    /\ response = BAD_GATEWAY

\* The records of the attempts: all but the record of the overall failure.
AttemptRecords == SelectSeq(records, LAMBDA rec : rec.proxy_id /= 0)

C17_Exhaustion ==
    (method = "GET" /\ op' = "exhausted") =>
        /\ Len(records) = max_retries + 1
        /\ connects = max_retries + 1
        /\ \A i \in 1..Len(records) :
              ~records[i].success /\ records[i].proxy_id \in ProxyIds
        /\ records' = Append(records,
                             [proxy_id |-> 0, success |-> FALSE,
                              status_code |-> BAD_GATEWAY,
                              error_message |-> last_error])
        /\ response' = BAD_GATEWAY
        /\ h_pc' = "done"

C17_OnlyThen ==
    /\ (op' = "outcome" /\ ~records'[Len(records')].success) =>
          /\ records'[Len(records')].proxy_id = proxy
          /\ proxy \in ProxyIds
    /\ op' /= "exhausted" =>
          \A i \in 1..Len(records') :
              records'[i].proxy_id = 0 =>
                  (i <= Len(records) /\ records[i] = records'[i])

C17_ZeroIsFinal ==
    \A i \in 1..Len(records) :
        records[i].proxy_id = 0 =>
            /\ method = "GET"
            /\ i = Len(records)
            /\ i = max_retries + 2
            /\ Answered
            /\ response = BAD_GATEWAY

\* C17: a forwarding request is exhausted when max_retries + 1 attempts have
\* each left one failure record with the id of their proxy; it then gets
\* exactly one more record, with proxy_id 0, success = false and status 502,
\* and is answered 502.  No other step of either mode adds a record with
\* proxy_id 0.
C17_ForwardingExhaustion ==
    []C17_ZeroIsFinal /\ [][C17_Exhaustion /\ C17_OnlyThen]_vars

\* Both attempts of a forwarding request with max_retries = 1 failed, the
\* second by timeout.
C17_Witness ==
    /\ method = "GET"
    /\ Answered
    /\ max_retries = 1
    /\ Len(records) = 3
    /\ records[1].proxy_id /= 0
    /\ records[2].proxy_id /= 0
    /\ records[3].proxy_id = 0
    /\ records[3].error_message = "Timeout"
    /\ response = BAD_GATEWAY

\* C18 as claimed: a forwarding request has at most one RequestRecord, and
\* exactly one once it has been answered after an attempt, however many
\* attempts it made.
C18_OneRecordPerRequest ==
    method = "GET" =>
        /\ Len(records) <= 1
        /\ (Answered /\ connects >= 1) => Len(records) = 1

\* The forwarding request is answered after all its attempts failed.
Exhausted ==
    /\ Answered
    /\ connects = max_retries + 1
    /\ \A i \in 1..Len(AttemptRecords) : ~AttemptRecords[i].success

\* C18 as amended: a forwarding request has one RequestRecord for each
\* attempt that went upstream and, once all max_retries + 1 attempts have
\* failed, one more for the overall failure: as many records as attempts,
\* or one more than that; a CONNECT request has one per attempt and none for
\* the overall failure.
C18_RecordPerAttempt ==
    /\ Len(AttemptRecords) = connects
    /\ connects = IF h_pc = "attempt" \/ (Answered /\ response =
                                                     SERVICE_UNAVAILABLE)
                    THEN attempts - 1 ELSE attempts
    /\ Len(records) = connects +
          (IF method = "GET" /\ Exhausted THEN 1 ELSE 0)

\* A forwarding request answered at its second attempt has two records.
C18_Witness ==
    /\ method = "GET"
    /\ Answered
    /\ attempts = 2
    /\ Len(records) = 2
    /\ ~records[1].success
    /\ records[2].success
    /\ response = OK

\* Every attempt of the request ended by the elapse of its timeout.
AllTimedOut ==
    \A i \in 1..Len(AttemptRecords) :
        AttemptRecords[i].error_message = "Timeout"

\* C19 as claimed: a request whose max_retries + 1 attempts all timed out is
\* answered 502 in CONNECT mode and 504 in forwarding mode.
C19_TimeoutMapping ==
    (Exhausted /\ AllTimedOut) =>
        response = IF method = "CONNECT" THEN BAD_GATEWAY
                                         ELSE StatusCode("Timeout")

\* C20 as claimed: a request the handler cannot parse or read ends with
\* InvalidRequest and is answered 400, with no select, no upstream
\* connection and no RequestRecord.
C20_MalformedRequest ==
    result = "InvalidRequest" =>
        /\ response = StatusCode("InvalidRequest")
        /\ attempts = 0
        /\ connects = 0
        /\ records = <<>>

\* The step is a request passing through the service function.
ServeStep == op' \in {"handle", "refuse"}

C22_AuthBeforeLimit ==
    [][(ServeStep /\ auth_enabled /\ auth_header' \in BadHeaders) =>
          /\ limiters' = limiters
          /\ response' = PROXY_AUTHENTICATION_REQUIRED]_vars

\* C23: with the limiter enabled and burst capacity N, the first N checks
\* of a client on a bucket that got no cell back succeed and the next is
\* refused with RateLimitExceeded naming that client; a refused request is
\* answered 429 and does not reach the handler.
C23_Quota ==
    [][ServeStep =>
          /\ (rl_config.enabled /\ ~refilled[client']) =>
                /\ calls[client'] < rl_config.burst => rl_ret' = RlOk
                /\ calls[client'] >= rl_config.burst => rl_ret' = client'
          /\ rl_ret' /= RlOk =>
                /\ response' = TOO_MANY_REQUESTS
                /\ ~invoked'
                /\ attempts' = 0
                /\ connects' = 0
                /\ records' = <<>>
                /\ h_pc' = "done"]_vars

\* The third request of a client under a quota of two was refused.
C23_Witness ==
    /\ rl_config.enabled
    /\ rl_config.burst = 2
    /\ client /= 0
    /\ calls[client] = 3
    /\ ~refilled[client]
    /\ rl_ret = client
    /\ response = TOO_MANY_REQUESTS

\* C24: the outcomes of the checks of a client are those of the run in
\* which no other client makes a request: its bucket is the same in both
\* runs, and so is the result of each of its checks.
C24_Isolation ==
    [][/\ limiters'[1] = solo'[1]
       /\ (op' = "check" /\ client' = 1) =>
             rl_ret' = LimiterCheck(rl_config, solo, 1).ret]_vars

\* The second client has used up its bucket and was refused; the first is
\* let through.
C24_Witness ==
    /\ rl_config.enabled
    /\ limiters[2] /= NoBucket
    /\ limiters[2].tokens = 0
    /\ calls[2] > rl_config.burst
    /\ ~refilled[2]
    /\ client = 1
    /\ rl_ret = RlOk

\* C25: once apply_settings has returned and the limiter is enabled, every
\* bucket in the limiter was built with the quota of the configuration in
\* force, whatever check calls ran alongside it: no bucket of the previous
\* quota is left.
C25_NoOldBucket ==
    (ap_pc = "idle" /\ rl_config.enabled) =>
        \A c \in Clients :
            limiters[c] /= NoBucket => limiters[c].burst = rl_config.burst

\* The relay tasks that hold a guard of proxy id.
Relaying(id) ==
    {t \in Tasks : relay[t].pc \in {"upgrade", "copy"} /\ relay[t].proxy = id}

Counts == heap[inner].connections

C26_Paired ==
    \A id \in ProxyIds : TrackerGet(Counts, id) = Cardinality(Relaying(id))

C26_Steps ==
    /\ (op' = "outcome" /\ response' = OK) =>
          /\ connects' = connects + 1
          /\ Counts' = [Counts EXCEPT ![proxy] = @ + 1]
    /\ (op' \in {"handle", "select", "exhausted"}
          \/ (op' = "outcome" /\ response' /= OK)) =>
          Counts' = Counts
    /\ op' \in ExitPaths =>
          Counts' = [Counts EXCEPT ![relay[arg'].proxy] = @ - 1]
    /\ op' \in {"upgraded", "half_done"} => Counts' = Counts

\* C26: a CONNECT request acquires the counter of its proxy once, in the
\* step that follows an established upstream connection and answers 200,
\* and the relay task releases it once however it ends (copy finished,
\* upgrade failed, cancelled or panicked): the count of a proxy is the
\* number of its running relay tasks.  The steps of a request that ends in
\* 502 or 503 leave the counts as they are.
C26_GuardPairing == []C26_Paired /\ [][C26_Steps]_vars

\* The relay task of an answered CONNECT ended at a failed upgrade, and no
\* count is left.
C26_Witness ==
    /\ op = "upgrade_failed"
    /\ \A id \in ProxyIds : TrackerGet(Counts, id) = 0
    /\ \A t \in Tasks : relay[t].pc = "none"
    /\ response = OK

\* A half of the copy of a task ends in this step.
HalfEnds(t) ==
    /\ op' \in {"half_done", "copied"}
    /\ arg' = t

\* C27 as claimed: the guard is released in the step in which either half
\* of the copy ends, without waiting for the other half.
C27_ReleasedAtFirstHalf ==
    [][\A t \in Tasks :
          HalfEnds(t) =>
              Counts' = [Counts EXCEPT ![relay[t].proxy] = @ - 1]]_vars

\* C27, amended: the guard is released in the step in which the second
\* half of the copy ends; when the first half ends the task goes on
\* holding it, for as long as the other half runs.
C27_ReleasedAtSecondHalf ==
    [][\A t \in Tasks :
          HalfEnds(t) =>
              IF relay[t].c2s \/ relay[t].s2c
                THEN /\ Counts' = [Counts EXCEPT ![relay[t].proxy] = @ - 1]
                     /\ relay'[t].pc = "none"
                ELSE /\ Counts' = Counts
                     /\ relay'[t].pc = "copy"
                     /\ TrackerGet(Counts', relay[t].proxy) > 0]_vars

\* One half of a copy has ended and the proxy is still counted.
C27_Witness ==
    \E t \in Tasks :
        /\ relay[t].pc = "copy"
        /\ relay[t].c2s /= relay[t].s2c
        /\ op = "half_done"
        /\ TrackerGet(Counts, relay[t].proxy) = 1

\* C28: in every state reached by create, record_request,
\* record_health_check, update, toggle, archive and restore, in any order,
\* the row has status failed if and only if its invalid_since is set.
C28_StatusInvariant ==
    row.table /= "none" =>
        (row.status = "failed" <=> row.invalid_since /= None)

\* A failed request was recorded on a row that a probe had set to failed,
\* below the threshold.
C28_Witness ==
    /\ op = "record_request"
    /\ row.table = "proxies"
    /\ row.status = "failed"
    /\ row.failed_requests = 1
    /\ row.invalid_since /= None

\* A record_request call that finds the row.
RequestRecorded(success) ==
    /\ op' = "record_request"
    /\ arg' = (IF success THEN 1 ELSE 0)
    /\ row.table = "proxies"

C29_Steps ==
    /\ RequestRecorded(FALSE) =>
          /\ row'.failed_requests = row.failed_requests + 1
          /\ row'.requests = row.requests + 1
          /\ row'.successful_requests = row.successful_requests
          /\ row.status /= "failed" =>
                /\ row'.status = "failed" <=>
                      row'.failed_requests >= FailureThreshold
                /\ row'.status /= "failed" => row'.status = row.status
          /\ row.status = "failed" => row'.status = "failed"
    /\ RequestRecorded(TRUE) =>
          /\ row'.failed_requests = 0
          /\ row'.status = "active"
          /\ row'.requests = row.requests + 1
          /\ row'.successful_requests = row.successful_requests + 1
    /\ op' /= "record_request" =>
          /\ row'.failed_requests = row.failed_requests \/ op' = "create"
          /\ row'.successful_requests >= row.successful_requests
                \/ op' = "create"

\* C29: a failed request adds 1 to failed_requests and turns a row that is
\* not failed into failed exactly when the new failed_requests is at least
\* 3; failed_requests is the number of failed requests since the last
\* successful one, whatever probes, updates, archives and restores came in
\* between; a successful request sets failed_requests to 0 and the status
\* to active; requests grows by 1 with every call and successful_requests
\* never shrinks.
C29_FailureThreshold ==
    /\ [](row.table /= "none" => row.failed_requests = streak)
    /\ [][C29_Steps]_vars

\* The third failed request in a row made the row failed.
C29_Witness ==
    /\ op = "record_request"
    /\ arg = 0
    /\ row.table = "proxies"
    /\ row.status = "failed"
    /\ row.failed_requests = FailureThreshold
    /\ row.requests = FailureThreshold
    /\ row.invalid_since = now

\* C30: a successful probe sets the status to active and clears
\* invalid_since; a failed probe sets the status to failed and sets
\* invalid_since to the present time only if it was not set; a failed
\* request on a row whose invalid_since is set leaves it as it is.
C30_HealthCheck ==
    [][/\ (op' = "record_health_check" /\ row.table = "proxies") =>
             IF arg' = 1
               THEN /\ row'.status = "active"
                    /\ row'.invalid_since = None
               ELSE /\ row'.status = "failed"
                    /\ row'.invalid_since =
                          (IF row.invalid_since = None
                             THEN now ELSE row.invalid_since)
       /\ (RequestRecorded(FALSE) /\ row.invalid_since /= None) =>
             row'.invalid_since = row.invalid_since]_vars

\* A failed probe found a row that had failed at an earlier time, and the
\* time of the first failure is still there.
C30_Witness ==
    /\ op = "record_health_check"
    /\ arg = 0
    /\ row.table = "proxies"
    /\ row.status = "failed"
    /\ row.invalid_since /= None
    /\ row.invalid_since < now

\* The forwarding attempt in flight through proxy id, if any.
InFlight(id) ==
    IF h_pc = "attempt" /\ method = "GET" /\ proxy = id THEN 1 ELSE 0

C38_Balanced ==
    \A id \in ProxyIds : TrackerGet(Counts, id) = tunnels[id] + InFlight(id)

C38_Steps ==
    /\ (op' = "select" /\ method = "GET" /\ ret' /= NoProxiesAvailable) =>
          /\ Counts' = [Counts EXCEPT ![ret'] = @ + 1]
          /\ connects' = connects
    /\ (op' = "outcome" /\ method = "GET") =>
          /\ Counts' = [Counts EXCEPT ![proxy] = @ - 1]
          /\ connects' = connects + 1
    /\ (op' = "exhausted" /\ method = "GET") => Counts' = Counts

\* C38: a forwarding attempt acquires the counter of the selected proxy
\* before forward_request starts and releases it in the step in which the
\* attempt ends, with a response or with an error; while the attempt is in
\* flight the count of its proxy is one above the number of the proxy's
\* open tunnels, and in every other state, the states in which handle has
\* returned (response, 502, 503) among them, every count is the number of
\* open tunnels, as it was before the request.
C38_ForwardingBalance == []C38_Balanced /\ [][C38_Steps]_vars

\* A forwarding request ended in 502 after a failed attempt through a proxy
\* that has an open tunnel, and the proxy is counted once.
C38_Witness ==
    /\ method = "GET"
    /\ h_pc = "done"
    /\ response = BAD_GATEWAY
    /\ op = "exhausted"
    /\ connects > 0
    /\ \E id \in ProxyIds :
          /\ records[1].proxy_id = id
          /\ tunnels[id] = 1
          /\ TrackerGet(Counts, id) = 1

\* C37 as claimed: in every state the count the active strategy keeps for
\* a proxy is the number of live TunnelGuards of that proxy, also after
\* set_strategy has put a new strategy in place while guards were live.
C37_CountIsLiveGuards ==
    \A id \in ProxyIds : TrackerGet(Counts, id) = tunnels[id]

\* C36 as claimed: when no refresh call and no set_strategy call is
\* running, the list of the active strategy is the canonical pool of the
\* DynamicProxySelector, however the calls were interleaved.
C36_PoolConsistent ==
    (setter.pc = "idle" /\ \A t \in Refreshers : refreshers[t].pc = "idle") =>
        heap[inner].proxies = dyn_proxies

\* The callers that have fetched a cursor for place p and not yet returned.
Fetched(p) == {t \in Threads : rr[t].pc = "fetched" /\ rr[t].idx = p - 1}

\* The cursors handed out since the last refresh that fall on place p.
HandedTo(p) ==
    {i \in DOMAIN handed : handed[i] % Len(proxies) = p - 1}

C40_Cursors ==
    rr_refresh = "idle" =>
        /\ \A i \in DOMAIN handed : handed[i] = i - 1
        /\ index = Len(handed)
        /\ \A t \in Threads :
              rr[t].pc = "fetched" =>
                  /\ \E i \in DOMAIN handed : handed[i] = rr[t].cursor
                  /\ \A u \in Threads \ {t} :
                        rr[u].pc = "fetched" => rr[u].cursor /= rr[t].cursor

C40_Shares ==
    (rr_refresh = "idle" /\ proxies /= <<>>) =>
        \A p \in DOMAIN proxies :
            /\ served[p] + Cardinality(Fetched(p)) = Cardinality(HandedTo(p))
            /\ Cardinality(HandedTo(p)) >= Len(handed) \div Len(proxies)
            /\ Cardinality(HandedTo(p)) <=
                  (Len(handed) + Len(proxies) - 1) \div Len(proxies)

C40_Atomic ==
    /\ rr_refresh /= "idle" => \A t \in Threads : rr[t].pc = "idle"
    /\ \A t \in Threads :
          rr[t].pc = "fetched" =>
              /\ rr[t].idx = rr[t].cursor % Len(proxies)
              /\ rr[t].idx < Len(proxies)

\* C40: the cursors that concurrent selects fetch between two refreshes
\* are 0, 1, 2, ... in the order of their fetch_add, each handed to one
\* caller, so that with k selects answered and none running each place of
\* a list of n proxies has been served floor(k/n) or ceil(k/n) times; a
\* refresh changes the list and the cursor only while no select is between
\* its lock and its return, so that every select returns the proxy at its
\* own cursor modulo the length of the list it locked.
C40_RoundRobinConcurrent ==
    /\ []C40_Cursors
    /\ []C40_Shares
    /\ []C40_Atomic
    /\ [][\A t \in Threads :
            (op' = "rr_return" /\ arg' = t) =>
                ret' = proxies[(rr[t].cursor % Len(proxies)) + 1]]_vars

\* Every caller is between its fetch and its return, on a list of two or
\* more proxies, after a full cycle has been served.
C40_Witness ==
    /\ \A t \in Threads : rr[t].pc = "fetched"
    /\ Len(proxies) >= 2
    /\ Len(handed) > Len(proxies)
    /\ \A p \in DOMAIN proxies : served[p] >= 1

\* A host that is a DNS name: not an address.
IsDnsName(host) ==
    /\ ~ParseIpv4Ok(host)
    /\ host \notin Ipv6Literals
    /\ \E i \in DOMAIN host : host[i] \in {"a", "b"}

\* C35 as claimed: a connect call through a SOCKS4a or SOCKS5 proxy, whose
\* address is valid, to a target host that is a DNS name goes on to the
\* negotiation with the proxy; it does not end in a local error.
C35_DomainTarget ==
    (/\ ProtocolLowercase(transport.protocol) \in {"socks4a", "socks5"}
     /\ ParseSocketAddrOk(transport.address)
     /\ IsDnsName(transport.host)) =>
        transport.stage /= "local_error"

\* The hop-by-hop names of the claim.
HopByHopNames ==
    {"connection", "keep-alive", "proxy-authenticate", "proxy-authorization",
     "te", "trailers", "transfer-encoding", "upgrade"}

\* The headers of the client that are to be forwarded, in their order.
Forwardable == SelectSeq(fwd.headers, LAMBDA h : h.name \notin HopByHopNames)

\* The outbound headers without the one forward_request adds.
Copied ==
    IF fwd.upstream.username.some /\ fwd.upstream.password.some
      THEN SubSeq(fwd.out, 1, Len(fwd.out) - 1)
      ELSE fwd.out

\* C34: no header of the client whose name, in any case, is one of
\* connection, keep-alive, proxy-authenticate, proxy-authorization, te,
\* trailers, transfer-encoding, upgrade is in the outbound request, and
\* every other header of the client is, with its value; the outbound
\* request has a Proxy-Authorization header only if the upstream proxy has
\* a username and a password, and its value then decodes to the two joined
\* by a colon, and is not the client's.
C34_HopByHop ==
    op = "forward" =>
        /\ Copied = Forwardable
        /\ \A i \in DOMAIN Copied : Copied[i].name \notin HopByHopNames
        /\ \A i \in DOMAIN fwd.out :
              fwd.out[i].name = "proxy-authorization" =>
                  /\ fwd.upstream.username.some
                  /\ fwd.upstream.password.some
                  /\ i = Len(fwd.out)
                  /\ StartsWith(fwd.out[i].value, BasicPrefix)
                  /\ Base64Decode(SubSeq(fwd.out[i].value, 7,
                                         Len(fwd.out[i].value)))
                        = [ok |-> TRUE,
                           bytes |-> fwd.upstream.username.bytes
                                        \o <<Colon>>
                                        \o fwd.upstream.password.bytes]
                  /\ fwd.out[i].value /= ClientAuthValue
        /\ (fwd.upstream.username.some /\ fwd.upstream.password.some) =>
              /\ fwd.out /= <<>>
              /\ fwd.out[Len(fwd.out)].name = "proxy-authorization"

\* A request with the client's Proxy-Authorization and one more header goes
\* out through a proxy with credentials: the other header and the proxy's
\* credentials are sent.
C34_Witness ==
    /\ op = "forward"
    /\ Len(fwd.headers) = 2
    /\ \E i \in DOMAIN fwd.headers :
          /\ fwd.headers[i].name = "proxy-authorization"
          /\ fwd.headers[i].value = ClientAuthValue
    /\ Len(fwd.out) = 2
    /\ fwd.out[1].name = "host"
    /\ fwd.out[2].value = BasicCredentials(<<120>>, <<121>>)

\* The rows of proxies with a usable status.
UsableIds == {id \in SvcIds :
                 /\ tbl.proxies[id] /= NoRow
                 /\ tbl.proxies[id].status \in {"active", "idle"}}

\* The rows of proxies.
TableIds == {id \in SvcIds : tbl.proxies[id] /= NoRow}

\* The ids of a list are in the order of their addresses, each once.
Ordered(list) ==
    \A i \in DOMAIN list : \A j \in DOMAIN list : i < j => list[i] < list[j]

\* The steps of a tick: it probes every row of the table, whatever the
\* status; a probe that succeeds makes the row active and one that fails
\* makes it failed; the list is read when all probes are recorded, and is
\* the usable rows or all rows as remove_unhealthy says; the refresh gives
\* the selector that list.
C31_Steps ==
    /\ op' = "hc_get_all" => hc'.todo = TableIds
    /\ (op' = "hc_record" /\ tbl.proxies[arg'] /= NoRow) =>
          tbl'.proxies[arg'].status = (IF ret' = 1 THEN "active" ELSE "failed")
    /\ op' = "hc_fetch" =>
          /\ hc.todo = {}
          /\ Ordered(hc'.list)
          /\ Range(hc'.list) = (IF settings.remove_unhealthy
                                  THEN UsableIds ELSE TableIds)
    /\ op' = "hc_refresh" =>
          /\ hc.pc = "fetched"
          /\ dyn_proxies' = hc.list
          /\ heap'[inner'].proxies = hc.list
    /\ op' \in {"hc_get_all", "hc_record", "hc_fetch"} =>
          heap'[inner'].proxies = heap[inner].proxies
    /\ (hc.pc = "fetched" /\ hc'.pc /= "fetched") => op' = "hc_refresh"

Moved ==
    {id \in SvcIds : /\ tbl.proxies[id] /= NoRow
                     /\ tbl'.proxies[id] = NoRow
                     /\ tbl'.deleted_proxies[id] /= NoRow}

\* The condition as the specification words it: failed, a time set, and
\* invalid for at least that time.
DueAsWorded(id) ==
    /\ tbl.proxies[id] /= NoRow
    /\ tbl.proxies[id].status = "failed"
    /\ tbl.proxies[id].auto_delete_after_failed_seconds /= None
    /\ tbl.proxies[id].invalid_since /= None
    /\ now - tbl.proxies[id].invalid_since
          >= tbl.proxies[id].auto_delete_after_failed_seconds

\* The same with a time that is positive.
DuePositive(id) ==
    /\ DueAsWorded(id)
    /\ tbl.proxies[id].auto_delete_after_failed_seconds > 0

\* A batch of the scan moves the rows of `due`, up to batch_limit of them
\* and the ones invalid for longest first, and no other row, with their
\* columns; no other step moves a row to the archive.
BatchMoves(due) ==
    /\ op' = "archive" =>
          /\ Moved \subseteq due
          /\ Cardinality(Moved)
                = Least(Cardinality(due), settings.batch_limit)
          /\ \A id \in Moved : \A other \in due \ Moved :
                tbl.proxies[id].invalid_since
                    <= tbl.proxies[other].invalid_since
          /\ \A id \in Moved :
                tbl'.deleted_proxies[id]
                    = [tbl.proxies[id] EXCEPT !.table = "deleted_proxies"]
          /\ \A id \in SvcIds \ Moved :
                /\ tbl'.proxies[id] = tbl.proxies[id]
                /\ tbl'.deleted_proxies[id] = tbl.deleted_proxies[id]
          /\ scan'.batch = Moved
    /\ op' /= "archive" => Moved = {}

\* The scan goes on to the next batch only after it has read the list and
\* refreshed the selector with it, and only if the batch was full; an
\* empty batch ends it.
ScanLoop ==
    /\ op' = "archive" =>
          /\ scan.pc \in {"idle", "loop"}
          /\ scan'.pc = (IF Moved = {} THEN "idle" ELSE "archived")
    /\ (scan.pc = "archived" /\ scan' /= scan) =>
          /\ op' = "scan_fetch"
          /\ Ordered(scan'.list)
          /\ Range(scan'.list) = (IF settings.remove_unhealthy
                                    THEN UsableIds ELSE TableIds)
    /\ (scan.pc = "fetched" /\ scan' /= scan) =>
          /\ op' = "scan_refresh"
          /\ heap'[inner'].proxies = scan.list
          /\ scan'.pc = (IF Cardinality(scan.batch) = settings.batch_limit
                           THEN "loop" ELSE "idle")

\* C32 as worded: a batch moves the failed proxies whose
\* auto_delete_after_failed_seconds is set and has passed since
\* invalid_since.
C32_AsWorded == [][BatchMoves({id \in SvcIds : DueAsWorded(id)})]_vars

\* C32: a batch of the scan moves to the archive the proxies that are
\* failed, have an auto_delete_after_failed_seconds greater than 0 and
\* have been invalid for at least that time, at most batch_limit of them
\* and the oldest invalid_since first, and never another proxy; the
\* selector is refreshed after each batch that is not empty, and the scan
\* takes one more batch if and only if the last one was full.
C32_AutoArchive ==
    /\ [][BatchMoves({id \in SvcIds : DuePositive(id)})]_vars
    /\ [][ScanLoop]_vars

\* A batch of one has been archived and a proxy that is due is left for
\* the next batch.
C32_Witness ==
    /\ op = "archive"
    /\ settings.batch_limit = 1
    /\ Cardinality(scan.batch) = 1
    /\ \E id \in SvcIds :
          /\ tbl.proxies[id] /= NoRow
          /\ Expired(tbl.proxies[id], now)
          /\ \A old \in scan.batch :
                tbl.deleted_proxies[old].invalid_since
                    < tbl.proxies[id].invalid_since

\* Each proxy is in one of the two tables.
OneTable ==
    \A id \in SvcIds :
        (tbl.proxies[id] /= NoRow) /= (tbl.deleted_proxies[id] /= NoRow)

\* A restore of an archived proxy puts its row back under its id, idle,
\* with no invalid_since and no failure reasons and the other columns as
\* archived; a restore of another id changes no table.
RestoreSteps ==
    op' = "restore" =>
        IF tbl.deleted_proxies[arg'] /= NoRow
          THEN /\ tbl'.deleted_proxies[arg'] = NoRow
               /\ tbl'.proxies[arg'].table = "proxies"
               /\ tbl'.proxies[arg'].status = "idle"
               /\ tbl'.proxies[arg'].invalid_since = None
               /\ tbl'.proxies[arg'].failure_reasons = "empty"
               /\ \A column \in {"requests", "successful_requests",
                                 "failed_requests",
                                 "auto_delete_after_failed_seconds"} :
                     tbl'.proxies[arg'][column]
                         = tbl.deleted_proxies[arg'][column]
               /\ \A id \in SvcIds \ {arg'} :
                     /\ tbl'.proxies[id] = tbl.proxies[id]
                     /\ tbl'.deleted_proxies[id] = tbl.deleted_proxies[id]
          ELSE tbl' = tbl

\* C33: through the archive and restore operations every proxy id stays in
\* exactly one of the tables proxies and deleted_proxies; a restore of an
\* archived id puts the proxy back under the same id with status idle,
\* invalid_since cleared and no failure reasons, and a restore of an id
\* that is not archived changes nothing.
C33_RoundTrip == []OneTable /\ [][RestoreSteps]_vars

\* An archived proxy has been restored.
C33_Witness ==
    /\ op = "restore"
    /\ ret = arg
    /\ tbl.proxies[arg].status = "idle"
    /\ tbl.proxies[arg].auto_delete_after_failed_seconds = 1
    /\ tbl.deleted_proxies[arg] = NoRow
    /\ arg \in SelectorPool

\* C39: when neither the scan nor the tick is at work, no archived proxy
\* is in the pool of the selector.
C39_NoResurrection ==
    (hc.pc = "idle" /\ scan.pc = "idle") =>
        \A id \in SelectorPool : tbl.deleted_proxies[id] = NoRow
====
